---- MODULE Spec2Model ----
(***************************************************************************)
(* ShiroTweet: the acquisition-and-persistence pipeline.                   *)
(*                                                                         *)
(* The module models run_url_downloader (fetcher.rs) with the fetch pass   *)
(* fetch_url_lists_to_sqlite and the Raw Cache TweetDownloadDB             *)
(* (tweet_fetcher.rs), the parser extract_all_tweets / get_thread          *)
(* (tweet_parser.rs), the tweet store TweetDB (tweet_db.rs) and the error  *)
(* table of utils.rs.                                                      *)
(***************************************************************************)
EXTENDS Integers, Sequences, FiniteSets, TLC

\* ------------------------------------------------------------------ bounds

\* Consecutive RateLimited results the Fetch Capability gives for one URL.
MaxRateLimited == 2
\* Lines of the input URL list.
MaxLines == 2

\* ------------------------------------------------------- program constants

\* The retry-round budget of the authenticated tier: `retries < 5`.
MaxRetries == 5
\* The media rows of the stores the downloader is run on.
MaxMedia == 2
\* The retriable failures a download has before it succeeds.
MaxFlaky == 1
\* The timeline entries of the payloads given to the parser.
MaxEntries == 2
\* The variants of a video.
MaxVariants == 3
\* The instructions of a payload.
MaxInstructions == 3

\* ---------------------------------------------------------------- helpers

EmptyMap == [x \in {} |-> 0]

MapPut(m, k, v) == [x \in (DOMAIN m) \cup {k} |-> IF x = k THEN v ELSE m[x]]

RECURSIVE FlattenSeq(_)
FlattenSeq(ss) == IF ss = <<>> THEN <<>> ELSE Head(ss) \o FlattenSeq(Tail(ss))

\* Every ordering of a finite set, as sequences without repetition.
Perms(S) ==
  {p \in [1..Cardinality(S) -> S] : \A i, j \in 1..Cardinality(S) : p[i] = p[j] => i = j}

\* --------------------------------------------------------------- the URLs

\* A canonical post URL https://twitter.com/<author>/status/<id>.
MkUrl(a, n) == [author |-> a, id |-> n]

\* The post URLs the input lines can carry.  Two of them carry the same
\* status id under different author segments.
UrlUniverse == {MkUrl("a", 1), MkUrl("a", 2), MkUrl("b", 1)}

\* The position of a URL in the lexicographic order of the URL strings.
UrlRank(u) == (IF u.author = "a" THEN 0 ELSE 10) + u.id

\* extract_twitter_url(url).1 : the status id of a canonical URL.
extract_twitter_url(u) == u.id

\* A line of the input file: a URL-bearing line, or a line with no match.
NoMatch == [author |-> "", id |-> 0]

\* A line of the input file that carries the text of the URL u and then
\* rest: nothing, a query, or letters; a line without the text of a URL
\* has the author "" and the id 0.
Line(u, rest) == [author |-> u.author, id |-> u.id, rest |-> rest]

\* URL_EXTRACTOR.captures(line), group 1: (https://twitter.com/.*?/status/\d+)\b
\* matches the URL up to its last digit when a word boundary follows, which
\* letters after the digits are not; <<>> is no match.
URL_EXTRACTOR(line) ==
  IF line.id = 0 \/ line.rest = "abc" THEN <<>>
  ELSE <<MkUrl(line.author, line.id)>>

InputLines ==
  {Line(u, rest) : u \in UrlUniverse, rest \in {"", "?s=20", "abc"}}
    \cup {Line(NoMatch, "")}
InputFiles == UNION {[1..n -> InputLines] : n \in 0..MaxLines}

\* Vec::sort on the URL strings (insertion into a sorted prefix).
RECURSIVE InsertSorted(_, _)
InsertSorted(s, u) ==
  IF s = <<>> THEN <<u>>
  ELSE IF UrlRank(u) < UrlRank(Head(s)) THEN <<u>> \o s
       ELSE <<Head(s)>> \o InsertSorted(Tail(s), u)

RECURSIVE SortUrls(_)
SortUrls(s) == IF s = <<>> THEN <<>> ELSE InsertSorted(SortUrls(Tail(s)), Head(s))

\* No dedup.
KeepAll(s) == s

\* Vec::dedup: drop every element equal to its predecessor.
RECURSIVE Dedup(_)
Dedup(s) ==
  IF Len(s) <= 1 THEN s
  ELSE IF s[1] = s[2] THEN Dedup(Tail(s))
       ELSE <<s[1]>> \o Dedup(Tail(s))

\* read_url_list: keep the matched URL of every line, sort, dedup.
read_url_list(file) ==
  Dedup(SortUrls(FlattenSeq([i \in 1..Len(file) |-> URL_EXTRACTOR(file[i])])))

\* The lists read_url_list gives for the input files.
RegistryLists == {read_url_list(file) : file \in InputFiles}

\* ------------------------------------------------------------- the errors

\* A table that also gives adult content a terminal reason.
try_make_fail_reason_adult(err) ==
  CASE err = "TweetRestricted" -> "restricted"
    [] err = "TweetNotExists" -> "deleted"
    [] err = "TwitterAccountSuspended" -> "account suspended"
    [] err = "TwitterAccountNotExisted" -> "account not existed"
    [] err = "TweetIllegalBan" -> "deleted"
    [] err = "TweetAdultContent" -> "restricted"
    [] OTHER -> ""

\* utils::Error::try_make_fail_reason: the terminal reason of a parser
\* error, "" when the error has none (the error is retryable).
try_make_fail_reason(err) ==
  CASE err = "TweetRestricted" -> "restricted"
    [] err = "TweetNotExists" -> "deleted"
    [] err = "TwitterAccountSuspended" -> "account suspended"
    [] err = "TwitterAccountNotExisted" -> "account not existed"
    [] err = "TweetIllegalBan" -> "deleted"
    [] OTHER -> ""

\* ------------------------------------------------------------ the payload

\* A raw payload is the JSON object the Fetch Capability intercepted:
\*   has_errors, errors_is_array, errors  the top-level "errors" key and the
\*                                        messages of its elements;
\*   has_instructions                     data.threaded_conversation_with_
\*                                        injections_v2.instructions is there
\*                                        and is an array;
\*   instructions                         [type, has_entries, entries].
\* An entry is [entryId, entryType, results]: entryId is n for "tweet-n" and
\* 0 for any other entry id; results holds the tweet_results.result of the
\* item (one element) or of the items of a module.
\* A result is [wrapped, typename, tombstone_type, text, item]: wrapped says
\* the result was a TweetWithVisibilityResults and the other fields describe
\* the tweet under it; tombstone_type is "" when the object has no tombstone
\* object; text is the set of known phrases the tombstone text contains;
\* item is <<t>> when the object deserializes as a TweetItem t, else <<>>.

Phrases == <<"ACCOUNT_SUSPENDED", "AUDLT_CONTENT", "USER_RESTRICTED",
             "ACCOUNT_NOT_EXISTED", "TWEET_ILLEGAL", "TWEET_NOT_AVALIABLE">>

PhraseError(p) ==
  CASE p = "ACCOUNT_SUSPENDED" -> "TwitterAccountSuspended"
    [] p = "AUDLT_CONTENT" -> "TweetAdultContent"
    [] p = "USER_RESTRICTED" -> "TweetRestricted"
    [] p = "ACCOUNT_NOT_EXISTED" -> "TwitterAccountNotExisted"
    [] p = "TWEET_ILLEGAL" -> "TweetIllegalBan"
    [] p = "TWEET_NOT_AVALIABLE" -> "TweetNotExists"

\* The if / else-if chain over text.contains(...): the first phrase of the
\* chain that the text contains decides; none is an unknown error.
TombstoneError(text) ==
  IF \E i \in 1..Len(Phrases) : Phrases[i] \in text
  THEN PhraseError(Phrases[CHOOSE i \in 1..Len(Phrases) :
                     /\ Phrases[i] \in text
                     /\ \A j \in 1..(i - 1) : Phrases[j] \notin text])
  ELSE "TweetUnknownError"

ParseOk(tweets) == [ok |-> TRUE, err |-> "", tweets |-> tweets]
ParseErr(e) == [ok |-> FALSE, err |-> e, tweets |-> EmptyMap]

\* TweetItem::deserialize, rest_id.parse and tweets.insert for one result.
DeserializeInto(acc, r) ==
  IF r.item = <<>> THEN ParseErr("TweetJsonSchemaInvalid")
  ELSE ParseOk(MapPut(acc, r.item[1].rest_id, r.item[1]))

\* One tweet_results.result of a TimelineTimelineItem entry.
ParseItemResult(acc, id, entryId, r) ==
  IF r.typename # "Tweet"
  THEN IF r.typename = "TweetTombstone" /\ r.tombstone_type = ""
       THEN ParseErr("panic")
       ELSE IF r.typename = "TweetTombstone" /\ r.tombstone_type # "TextTombstone"
       THEN ParseErr("TweetUnknownError")
       ELSE IF r.typename = "TweetTombstone" /\ entryId = id
       THEN ParseErr(TombstoneError(r.text))
       ELSE IF ~r.wrapped THEN ParseOk(acc)
       ELSE DeserializeInto(acc, r)
  ELSE DeserializeInto(acc, r)

\* One item of a TimelineTimelineModule entry.
ParseModuleResult(acc, r) ==
  IF r.typename # "Tweet" /\ ~r.wrapped THEN ParseOk(acc)
  ELSE DeserializeInto(acc, r)

\* The `?` after one result: go on with the next, or return the error.
RECURSIVE ParseModuleItems(_, _)
ModuleItemsAfter(one, rest) ==
  IF one.ok THEN ParseModuleItems(one.tweets, rest) ELSE one

\* for item in items.
ParseModuleItems(acc, rs) ==
  IF rs = <<>> THEN ParseOk(acc)
  ELSE ModuleItemsAfter(ParseModuleResult(acc, Head(rs)), Tail(rs))

\* One timeline entry, by its entryType.
ParseEntry(acc, id, e) ==
  CASE e.entryType = "TimelineTimelineItem" ->
         ParseItemResult(acc, id, e.entryId, e.results[1])
    [] e.entryType = "TimelineTimelineModule" -> ParseModuleItems(acc, e.results)
    [] OTHER -> ParseErr("Unimplemented")

RECURSIVE ParseEntries(_, _, _)
EntriesAfter(one, id, rest) ==
  IF one.ok THEN ParseEntries(one.tweets, id, rest) ELSE one

\* for entry in entries.
ParseEntries(acc, id, es) ==
  IF es = <<>> THEN ParseOk(acc)
  ELSE EntriesAfter(ParseEntry(acc, id, Head(es)), id, Tail(es))

\* The TimelineAddEntries instructions.
AddEntries(p) ==
  SelectSeq(p.instructions, LAMBDA i : i.type = "TimelineAddEntries")

\* No last check.
RequireNothing(id, all) == all

\* The last check: the requested id is among the parsed items.
RequireRequested(id, all) ==
  IF ~all.ok THEN all
  ELSE IF id \notin DOMAIN all.tweets THEN ParseErr("TweetJsonSchemaInvalid")
  ELSE all

\* extract_all_tweets taking the first TimelineAddEntries instruction when
\* there are several.
extract_all_tweets_first(id, p) ==
  IF p.has_errors /\ ~p.errors_is_array THEN ParseErr("TweetJsonSchemaInvalid")
  ELSE IF p.has_errors /\ \E i \in 1..Len(p.errors) : p.errors[i] = "DELETED"
  THEN ParseErr("TweetNotExists")
  ELSE IF ~p.has_instructions THEN ParseErr("TweetJsonSchemaInvalid")
  ELSE IF Len(AddEntries(p)) = 0 THEN ParseErr("TweetJsonSchemaInvalid")
  ELSE IF ~AddEntries(p)[1].has_entries THEN ParseErr("TweetJsonSchemaInvalid")
  ELSE RequireRequested(id, ParseEntries(EmptyMap, id, AddEntries(p)[1].entries))

\* tweet_parser::extract_all_tweets(id, obj).
extract_all_tweets(id, p) ==
  IF p.has_errors /\ ~p.errors_is_array THEN ParseErr("TweetJsonSchemaInvalid")
  ELSE IF p.has_errors /\ \E i \in 1..Len(p.errors) : p.errors[i] = "DELETED"
  THEN ParseErr("TweetNotExists")
  ELSE IF ~p.has_instructions THEN ParseErr("TweetJsonSchemaInvalid")
  ELSE IF Len(AddEntries(p)) = 0 THEN ParseErr("TweetJsonSchemaInvalid")
  ELSE IF Len(AddEntries(p)) > 1 THEN ParseErr("Todo")
  ELSE IF ~AddEntries(p)[1].has_entries THEN ParseErr("TweetJsonSchemaInvalid")
  ELSE RequireRequested(id, ParseEntries(EmptyMap, id, AddEntries(p)[1].entries))

\* get_thread without `if with_same_id.len() == 1 { None }`.
get_thread_of_one(id, tweets) ==
  IF id \notin DOMAIN tweets THEN {}
  ELSE IF tweets[id].self_thread = 0 THEN {}
  ELSE {t \in DOMAIN tweets :
          tweets[t].self_thread # 0 /\ tweets[t].self_thread = tweets[id].self_thread}

\* tweet_parser::get_thread: the ids sharing the requested item's
\* self-thread id, {} for None.  self_thread = 0 is "no self_thread".
get_thread(id, tweets) ==
  IF id \notin DOMAIN tweets THEN {}
  ELSE IF tweets[id].self_thread = 0 THEN {}
  ELSE LET with_same_id == {t \in DOMAIN tweets :
                              /\ tweets[t].self_thread # 0
                              /\ tweets[t].self_thread = tweets[id].self_thread}
       IN IF Cardinality(with_same_id) = 1 THEN {} ELSE with_same_id

\* TweetItem::as_tweet.  created_at < 0 stands for a timestamp text that
\* does not parse, which becomes 0.
as_tweet(t) ==
  [id |-> t.rest_id, author |-> t.screen_name, content |-> t.full_text,
   create_time |-> IF t.created_at < 0 THEN 0 ELSE t.created_at]

\* TweetItem::as_thread: <<edge>> for Some(edge), <<>> for None.
as_thread(t) ==
  IF t.self_thread = 0 \/ t.in_reply_to = 0 THEN <<>>
  ELSE <<[tweet_id |-> t.rest_id, thread_id |-> t.self_thread,
          reply_to |-> t.in_reply_to]>>

\* The first variant, whatever its bitrate.
FirstVariant(vs) == vs[1]

\* max_by_key(bitrate): the last of the variants of maximal bitrate.
MaxVariant(vs) ==
  vs[CHOOSE i \in 1..Len(vs) :
       /\ \A j \in 1..Len(vs) : vs[j].bitrate <= vs[i].bitrate
       /\ \A j \in (i + 1)..Len(vs) : vs[j].bitrate < vs[i].bitrate]

\* TweetItem::get_medias.
get_medias(t) ==
  LET src == IF t.has_extended THEN t.extended ELSE t.entities
  IN [i \in 1..Len(src) |->
        [id |-> src[i].id_str, tweet_id |-> t.rest_id,
         url |-> IF src[i].type \in {"animated_gif", "video"}
                 THEN MaxVariant(src[i].variants).url
                 ELSE src[i].media_url_https,
         width |-> src[i].width, height |-> src[i].height,
         no |-> i, type |-> src[i].type]]

\* --------------------------------------------------- the Raw Cache (dl db)

\* TweetDownloadDB: the rows [id, url, json] of its tweet table, id UNIQUE
\* and url UNIQUE.  The file of the database is "absent", "empty" (a file
\* without the tweet table) or "table" (a file with the tweet table).

\* TweetDownloadDB::new: [ok, file].  On an absent file the pool creates the
\* file and the CREATE TABLE batch runs; SQLite rejects its text (the
\* DEFAULT of fetch_time is an expression without parentheses), the unwrap
\* panics and the file stays without a table.  An existing file is opened
\* as it is.
DlNew(file) ==
  IF file = "absent" THEN [ok |-> FALSE, file |-> "empty"]
  ELSE [ok |-> TRUE, file |-> file]

\* is_exist with a query that matches every id.
DlIsExistAlways(db, id) == TRUE

\* is_exist with a query that never matches (unwrap_or(false)).
DlIsExistNever(db, id) == FALSE

\* TweetDownloadDB::is_exist.
DlIsExist(db, id) == \E r \in db : r.id = id

\* An insert into a table whose url column is not UNIQUE.
DlInsertIdOnly(db, id, url, json) ==
  IF \E r \in db : r.id = id
  THEN [ok |-> FALSE, db |-> db]
  ELSE [ok |-> TRUE, db |-> db \cup {[id |-> id, url |-> url, json |-> json]}]

\* TweetDownloadDB::insert: [ok, db].  The INSERT fails on a row with the
\* same id or the same url and then leaves the table as it was.
DlInsert(db, id, url, json) ==
  IF \E r \in db : r.id = id \/ r.url = url
  THEN [ok |-> FALSE, db |-> db]
  ELSE [ok |-> TRUE, db |-> db \cup {[id |-> id, url |-> url, json |-> json]}]

\* insert on the file: without the table the INSERT fails.
DlInsertIn(file, db, id, url, json) ==
  IF file = "table" THEN DlInsert(db, id, url, json) ELSE [ok |-> FALSE, db |-> db]

\* TweetDownloadDB::get_json: <<json>> for Ok(json), <<>> for the Err that
\* the processor unwraps.
DlGetJson(db, id) ==
  IF \E r \in db : r.id = id THEN <<(CHOOSE r \in db : r.id = id).json>> ELSE <<>>

\* TweetDownloadDB::remove.
DlRemove(db, id) == {r \in db : r.id # id}

\* An eviction that deletes nothing.
DlRemoveNone(db, us) == db

RECURSIVE DlRemoveAll(_, _)
DlRemoveAll(db, us) ==
  IF us = <<>> THEN db
  ELSE DlRemoveAll(DlRemove(db, extract_twitter_url(Head(us))), Tail(us))

\* `dldb.remove(id).unwrap()` for every remaining URL: without the table the
\* first DELETE fails and the unwrap panics.
EvictionPanics(file, is_clean, us) == is_clean /\ us # <<>> /\ file # "table"

\* ---------------------------------------------------------- the tweet store

\* TweetDB: [tweet, media, thread, fail].  tweet, media and thread are sets
\* of rows; fail is the sequence of its rows, the position being the
\* INTEGER PRIMARY KEY "id" that SQLite assigns.
EmptyTweetDB == [tweet |-> {}, media |-> {}, thread |-> {}, fail |-> <<>>]

\* An error of the storage engine: SqliteFailure with a code, or another
\* rusqlite::Error.  NoError is "the statement ran".
NoError == [sqlite |-> FALSE, code |-> ""]
ConstraintViolation == [sqlite |-> TRUE, code |-> "ConstraintViolation"]
EngineFaults == {[sqlite |-> TRUE, code |-> "DiskFull"],
                 [sqlite |-> FALSE, code |-> "ToSqlConversionFailure"]}

\* is_exist without the fail table.
TwIsExistPostOnly(db, id) == \E r \in db.tweet : r.id = id

\* TweetDB::is_exist: a tweet row or a fail row of that id.
TwIsExist(db, id) ==
  \/ \E r \in db.tweet : r.id = id
  \/ \E i \in 1..Len(db.fail) : db.fail[i].tweet_id = id

\* TweetDB::do_rusqlite_error: what becomes of an error, given the allowed
\* code ("" for None): "swallowed", "logged" or "panic".
do_rusqlite_error(err, allow) ==
  IF allow # ""
  THEN IF err.sqlite
       THEN IF err.code = allow THEN "swallowed" ELSE "logged"
       ELSE "panic"
  ELSE "panic"

\* The error conn.execute returns for an INSERT: the engine's fault when it
\* has one, else a constraint violation when a UNIQUE column collides.
ExecError(fault, collides) ==
  IF fault # NoError THEN fault
  ELSE IF collides THEN ConstraintViolation ELSE NoError

\* The result of one insert: the store after it, how its error was handled
\* ("ok" when there was none), the error and the table.
Inserted(db, how, err, table) ==
  [db |-> db, how |-> how, err |-> err, table |-> table]

\* `if let Err(e) = conn.execute(..) { do_rusqlite_error(.., e, Some(
\* ConstraintViolation)) }`: after is the store when the statement ran.
Executed(db, after, err, table) ==
  IF err = NoError THEN Inserted(after, "ok", err, table)
  ELSE Inserted(db, do_rusqlite_error(err, "ConstraintViolation"), err, table)

\* insert_tweet as INSERT OR REPLACE.
insert_tweet_replace(db, tweet, fault) ==
  Executed(db, [db EXCEPT !.tweet = {r \in @ : r.id # tweet.id} \cup {tweet}],
           ExecError(fault, FALSE), "tweet")

\* TweetDB::insert_tweet.
insert_tweet(db, tweet, fault) ==
  Executed(db, [db EXCEPT !.tweet = @ \cup {tweet}],
           ExecError(fault, \E r \in db.tweet : r.id = tweet.id), "tweet")

\* TweetDB::insert_media.
insert_media(db, media, fault) ==
  Executed(db, [db EXCEPT !.media = @ \cup {media}],
           ExecError(fault, \E r \in db.media : r.id = media.id \/ r.url = media.url),
           "media")

\* TweetDB::insert_thread.
insert_thread(db, thread, fault) ==
  Executed(db, [db EXCEPT !.thread = @ \cup {thread}],
           ExecError(fault, \E r \in db.thread : r.tweet_id = thread.tweet_id),
           "thread")

\* `if let Err(e) = conn.execute(..) { error!(..) }`.
ExecutedFail(db, after, err) ==
  IF err = NoError THEN Inserted(after, "ok", err, "fail")
  ELSE Inserted(db, "logged", err, "fail")

\* TweetDB::insert_fail: no column of the row it writes is UNIQUE, and an
\* error is logged and nothing else.
insert_fail(db, url, reason, fault) ==
  ExecutedFail(db,
               [db EXCEPT !.fail = Append(@, [tweet_id |-> extract_twitter_url(url),
                                              url |-> url, type |-> reason])],
               ExecError(fault, FALSE))

\* ----------------------------------------------------------- the processor

\* The inserts of one processor call, in the order the code issues them.
InsertOps(tweets, medias, threads) ==
  [i \in 1..Len(tweets) |-> [table |-> "tweet", row |-> tweets[i]]]
  \o [i \in 1..Len(medias) |-> [table |-> "media", row |-> medias[i]]]
  \o [i \in 1..Len(threads) |-> [table |-> "thread", row |-> threads[i]]]

\* The storage error of an insert, as an event: {} when it had none.
EventOf(r) ==
  IF r.how = "ok" THEN {} ELSE {[table |-> r.table, err |-> r.err, how |-> r.how]}

\* The state of the for_each after the insert result r.
AfterInsert(acc, r) ==
  [db |-> r.db, how |-> IF r.how = "panic" THEN "panic" ELSE "ok",
   events |-> acc.events \cup EventOf(r)]

\* The fault the engine gives an insert into `table`.
FaultFor(fault, table) == IF fault.table = table THEN fault.err ELSE NoError

InsertOne(db, op, fault) ==
  CASE op.table = "tweet" -> insert_tweet(db, op.row, FaultFor(fault, "tweet"))
    [] op.table = "media" -> insert_media(db, op.row, FaultFor(fault, "media"))
    [] OTHER -> insert_thread(db, op.row, FaultFor(fault, "thread"))

\* for_each over the inserts; a panic ends the run at once.  fault is
\* [table, err]: the error the engine gives for the inserts into one table
\* during this call (err = NoError: the engine works).  events collects the
\* errors that conn.execute returned and how each was handled.
RECURSIVE RunInserts(_, _, _)
RunInserts(acc, ops, fault) ==
  IF ops = <<>> \/ acc.how = "panic" THEN acc
  ELSE RunInserts(AfterInsert(acc, InsertOne(acc.db, Head(ops), fault)),
                  Tail(ops), fault)

ZeroCounts ==
  [success |-> 0, account_suspended |-> 0, account_not_existed |-> 0,
   restricted |-> 0, deleted |-> 0]

\* The counter a terminal reason increments.
CountField(reason) ==
  CASE reason = "restricted" -> "restricted"
    [] reason = "deleted" -> "deleted"
    [] reason = "account suspended" -> "account_suspended"
    [] reason = "account not existed" -> "account_not_existed"

\* What a processor call leaves: the tweet store, the remaining list and the
\* counters, how the call ended ("ok" or "panic"), the storage errors it met
\* and the kind of the parse result.
Out(db, rem, cnt, how, events, result) ==
  [db |-> db, remaining |-> rem, counts |-> cnt, how |-> how, events |-> events,
   result |-> result]

\* The inserts ran and the post is not counted.
SucceededUncounted(ins, rem, cnt) ==
  Out(ins.db, rem, cnt, IF ins.how = "panic" THEN "panic" ELSE "ok", ins.events, "Ok")

\* `// succeed`: the inserts ran; count the post unless one of them panicked.
Succeeded(ins, rem, cnt) ==
  IF ins.how = "panic" THEN Out(ins.db, rem, cnt, "panic", ins.events, "Ok")
  ELSE Out(ins.db, rem, [cnt EXCEPT !.success = @ + 1], "ok", ins.events, "Ok")

\* The inserts of the items, tweets first, then medias, then thread edges.
PersistItems(db, rem, cnt, items, with_threads, fault) ==
  Succeeded(
    RunInserts(
      [db |-> db, how |-> "ok", events |-> {}],
      InsertOps([i \in 1..Len(items) |-> as_tweet(items[i])],
                FlattenSeq([i \in 1..Len(items) |-> get_medias(items[i])]),
                IF with_threads
                THEN FlattenSeq([i \in 1..Len(items) |-> as_thread(items[i])])
                ELSE <<>>),
      fault),
    rem, cnt)

\* The Ok branch, thread being get_thread's answer: the items of the thread
\* in the order the HashMap hands out their ids, or the requested item,
\* tweet.get(&id).unwrap() panicking when the map does not have it.
ProcessOk(db, rem, cnt, id, tweets, thread, order, fault) ==
  IF thread = {} /\ id \notin DOMAIN tweets
  THEN Out(db, rem, cnt, "panic", {}, "no item")
  ELSE IF thread = {}
  THEN PersistItems(db, rem, cnt, <<tweets[id]>>, FALSE, fault)
  ELSE PersistItems(db, rem, cnt,
                    [i \in 1..Len(SelectSeq(order, LAMBDA n : n \in thread)) |->
                       tweets[SelectSeq(order, LAMBDA n : n \in thread)[i]]],
                    TRUE, fault)

\* The tally and the fail row of a terminal reason.
Failed(r, rem, cnt, fail, err) ==
  Out(r.db, rem, [cnt EXCEPT ![CountField(fail)] = @ + 1], "ok", EventOf(r), err)

\* The Err branch, fail being try_make_fail_reason's answer.
ProcessErr(db, rem, cnt, url, retry_restricted, err, fail, fault) ==
  IF err = "panic" THEN Out(db, rem, cnt, "panic", {}, "panic")
  ELSE IF fail = "" THEN Out(db, Append(rem, url), cnt, "ok", {}, err)
  ELSE IF fail = "restricted" /\ retry_restricted
  THEN Out(db, Append(rem, url), cnt, "ok", {}, err)
  ELSE Failed(insert_fail(db, url, fail, FaultFor(fault, "fail")), rem, cnt, fail, err)

\* The processor after the parse.
Processed(db, rem, cnt, url, retry_restricted, res, order, fault) ==
  IF res.ok
  THEN ProcessOk(db, rem, cnt, extract_twitter_url(url), res.tweets,
                 get_thread(extract_twitter_url(url), res.tweets), order, fault)
  ELSE ProcessErr(db, rem, cnt, url, retry_restricted, res.err,
                  try_make_fail_reason(res.err), fault)

\* The processor after get_json(id).unwrap().
Parsed(db, rem, cnt, url, retry_restricted, json, order, fault) ==
  IF json = <<>> THEN Out(db, rem, cnt, "panic", {}, "no json")
  ELSE Processed(db, rem, cnt, url, retry_restricted,
                 extract_all_tweets(extract_twitter_url(url), json[1]), order, fault)

\* run_url_downloader::processor(url, retry_restricted).  order is the
\* order in which the HashMap hands out the ids of the parse result.
processor(db, dl, rem, cnt, url, retry_restricted, order, fault) ==
  Parsed(db, rem, cnt, url, retry_restricted,
         DlGetJson(dl, extract_twitter_url(url)), order, fault)

\* ------------------------------------------------- the Fetch Capability

Photo(n) ==
  [id_str |-> n, type |-> "photo", media_url_https |-> n, variants |-> <<>>,
   width |-> n, height |-> n]

Item(n, text, thread, reply, medias) ==
  [rest_id |-> n, screen_name |-> "a", full_text |-> text, created_at |-> 7,
   self_thread |-> thread, in_reply_to |-> reply, entities |-> medias,
   has_extended |-> FALSE, extended |-> <<>>]

TweetResult(t) ==
  [wrapped |-> FALSE, typename |-> "Tweet", tombstone_type |-> "", text |-> {},
   item |-> <<t>>]

TombstoneResult(text) ==
  [wrapped |-> FALSE, typename |-> "TweetTombstone",
   tombstone_type |-> "TextTombstone", text |-> text, item |-> <<>>]

ItemEntry(n, r) ==
  [entryId |-> n, entryType |-> "TimelineTimelineItem", results |-> <<r>>]

ModuleEntry(rs) ==
  [entryId |-> 0, entryType |-> "TimelineTimelineModule", results |-> rs]

Timeline(entries) ==
  [has_errors |-> FALSE, errors_is_array |-> TRUE, errors |-> <<>>,
   has_instructions |-> TRUE,
   instructions |-> <<[type |-> "TimelineAddEntries", has_entries |-> TRUE,
                       entries |-> entries]>>]

\* The post alone, with one photo.
SinglePayload(n) == Timeline(<<ItemEntry(n, TweetResult(Item(n, "solo", 0, 0, <<Photo(n)>>)))>>)

\* The self-thread of posts 1 and 2 (thread id 1), as the conversation of
\* either post shows it.
ThreadPayload(n) ==
  LET t1 == TweetResult(Item(1, "thread", 1, 0, <<Photo(1)>>))
      t2 == TweetResult(Item(2, "thread", 1, 1, <<>>))
  IN IF n = 1 THEN Timeline(<<ItemEntry(1, t1), ModuleEntry(<<t2>>)>>)
     ELSE Timeline(<<ItemEntry(1, t1), ItemEntry(2, t2)>>)

\* A text tombstone in the place of the post.
TombstonePayload(n, phrase) == Timeline(<<ItemEntry(n, TombstoneResult({phrase}))>>)

\* The "errors" answer for a post that is gone.
DeletedPayload ==
  [has_errors |-> TRUE, errors_is_array |-> TRUE, errors |-> <<"DELETED">>,
   has_instructions |-> FALSE, instructions |-> <<>>]

\* An object without the instructions array.
NoInstructionsPayload ==
  [has_errors |-> FALSE, errors_is_array |-> TRUE, errors |-> <<>>,
   has_instructions |-> FALSE, instructions |-> <<>>]

\* Two TimelineAddEntries instructions.
TwoAddEntriesPayload(n) ==
  [has_errors |-> FALSE, errors_is_array |-> TRUE, errors |-> <<>>,
   has_instructions |-> TRUE,
   instructions |->
     <<[type |-> "TimelineAddEntries", has_entries |-> TRUE,
        entries |-> <<ItemEntry(n, TweetResult(Item(n, "solo", 0, 0, <<>>)))>>],
       [type |-> "TimelineAddEntries", has_entries |-> TRUE, entries |-> <<>>]>>]

\* The post followed by an entry of another entryType.
CursorPayload(n) ==
  Timeline(<<ItemEntry(n, TweetResult(Item(n, "solo", 0, 0, <<>>))),
             [entryId |-> 0, entryType |-> "TimelineTimelineCursor", results |-> <<>>]>>)

\* The self-thread of posts 1 and 2 in which post 2 shows the photo of
\* post 1 again: the same media id and media url in both items.
SharedMediaPayload ==
  Timeline(<<ItemEntry(1, TweetResult(Item(1, "thread", 1, 0, <<Photo(1)>>))),
             ItemEntry(2, TweetResult(Item(2, "thread", 1, 1, <<Photo(1)>>)))>>)

\* A TweetTombstone result without its "tombstone" object in the place of
\* the post.
TombstoneNoObjectPayload(n) ==
  Timeline(<<ItemEntry(n, [TombstoneResult({}) EXCEPT !.tombstone_type = ""])>>)

\* An "errors" array without a message, and nothing else.
EmptyErrorsPayload == [DeletedPayload EXCEPT !.errors = <<>>]

\* Bodies get_tweet hands back as Ok(body) for the post n.  It returns every
\* JSON object whose "errors", when it has the key, is an array with no
\* message of a rate limit, and parses the body no further; these are the
\* bodies the browser answers with here, at least one for every way
\* extract_all_tweets ends on a stored body, its panic included.
FetchPayloads(n) ==
  {SinglePayload(n), ThreadPayload(n), SharedMediaPayload,
   DeletedPayload, EmptyErrorsPayload, NoInstructionsPayload,
   TwoAddEntriesPayload(n), CursorPayload(n), TombstoneNoObjectPayload(n),
   Timeline(<<ItemEntry(n, TombstoneResult({}))>>)}
    \cup {TombstonePayload(n, Phrases[i]) : i \in 1..Len(Phrases)}

\* The payloads the processor may find in the Raw Cache for the post n:
\* what a fetch pass stored there.
ParsePayloads(n) == FetchPayloads(n)

\* ------------------------------------------------------------- the state

VARIABLES
  pc,         \* where run_url_downloader, or run_downloader, stands
  cfg,        \* [anon, login]: unlogin_fetcher / logged_in_fetcher is Some
  twFile,     \* the tweet db file exists on disk
  twdb,       \* the tweet store
  dlFile,     \* the download db file: "absent", "empty" or "table"
  dldb,       \* the Raw Cache
  urls,       \* the candidate list of this run
  remaining,  \* the shared remaining list
  counts,     \* the shared outcome counters
  clean,      \* `clean`
  retries,    \* `retries`
  f,          \* fetch_url_lists_to_sqlite: [urls, idx, succeed, failed, retries_counter]
  proc,       \* the succeed list being processed: [list, idx]
  last,       \* what the last step did: [op, url, id, result, cached, sleep,
              \* events, evicted]
  hist        \* this run so far: [registry, existed, called, rounds, settled,
              \* round_called]: the URL list read, the ids the tweet store
              \* held at the start, the URLs get_tweet was called for, the
              \* authenticated rounds started, the URLs processed to a
              \* success or a terminal failure, and the ids get_tweet was
              \* called for in the pass under way
VARIABLES
  input       \* the lines of the URL list file, where read_url_list is on its own
VARIABLES
  held        \* the mutexes of run_url_downloader of which the orchestrator
              \* thread holds a guard in a variable
VARIABLES
  dl          \* run_downloader: [scan, disk, env, fails, tasks, unrecoverables,
              \* round, batch, pending, faileds, chan, bar, display, manifest]

vars == <<pc, cfg, twFile, twdb, dlFile, dldb, urls, remaining, counts, clean,
          retries, f, proc, last, hist, dl, input, held>>

\* Mutex::lock returns, for each mutex of ms, to the orchestrator thread:
\* the thread holds no guard of it.  The mutexes are std::sync::Mutex and
\* only this thread locks them; lock() on a mutex whose guard the thread
\* holds does not return.
CanLock(ms) == ms \cap held = {}

\* The mutexes status_printer locks, one in each statement, the guard
\* being a temporary of the statement: a mutex is named as its counter is.
status_printer == {"remaining", "success", "account_suspended", "account_not_existed",
                   "deleted", "restricted"}

\* The mutexes a processor call that leaves r locks, each guard a temporary:
\* remaining when it pushes the URL, and the counter it adds to.
processor_locks(r) ==
  (IF r.remaining # remaining THEN {"remaining"} ELSE {})
    \cup {c \in DOMAIN counts : r.counts[c] # counts[c]}

\* The downloader binary is not running.
NoDownload ==
  [scan |-> <<>>, disk |-> {}, env |-> EmptyMap, fails |-> EmptyMap, tasks |-> <<>>,
   unrecoverables |-> <<>>, round |-> 0, batch |-> <<>>, pending |-> {},
   faileds |-> <<>>, chan |-> <<>>, bar |-> <<>>, display |-> "none",
   manifest |-> <<>>]

NoFetch == [urls |-> <<>>, idx |-> 1, succeed |-> <<>>, failed |-> <<>>,
            retries_counter |-> 0]
NoProc == [list |-> <<>>, idx |-> 1]
NoFault == [table |-> "", err |-> NoError]

Did(op, url, result) ==
  [op |-> op, url |-> url, id |-> extract_twitter_url(url), result |-> result,
   cached |-> <<>>, sleep |-> 0, events |-> {}, evicted |-> {}]

StartFetch(list) == [NoFetch EXCEPT !.urls = list]

\* Before the first run: the tweet db file does not exist; the download db
\* file does not exist either, or it is there with its table and no row.
Init ==
  /\ pc = "idle"
  /\ cfg = [anon |-> FALSE, login |-> FALSE]
  /\ twFile = FALSE
  /\ twdb = EmptyTweetDB
  /\ dlFile \in {"absent", "table"}
  /\ dldb = {}
  /\ urls = <<>>
  /\ remaining = <<>>
  /\ counts = ZeroCounts
  /\ clean = FALSE
  /\ retries = 0
  /\ f = NoFetch
  /\ proc = NoProc
  /\ last = Did("init", NoMatch, "")
  /\ hist = [registry |-> <<>>, existed |-> {}, called |-> {}, rounds |-> 0,
             settled |-> {}, round_called |-> {}]
  /\ dl = NoDownload
  /\ input = <<>>
  /\ held = {}

\* The candidate list: the registry's URLs whose id the tweet store does not
\* hold, when the tweet db file was there before the run.
Candidates(list, existed, db) ==
  IF existed
  THEN SelectSeq(list, LAMBDA u : ~TwIsExist(db, extract_twitter_url(u)))
  ELSE list

\* run_url_downloader up to the first fetch: the fetchers are set up, the
\* URL list is read, the databases are opened (the tweet db is created when
\* its file is missing; opening a missing download db panics); the candidate
\* list is filtered; with an un-login fetcher the anonymous pass starts,
\* without one the candidates become the remaining list.
StartRun ==
  /\ pc \in {"idle", "done", "panicked"}
  /\ \E list \in RegistryLists, anon \in BOOLEAN, login \in BOOLEAN :
       LET cand == IF DlNew(dlFile).ok THEN Candidates(list, twFile, twdb) ELSE <<>>
       IN /\ cfg' = [anon |-> anon, login |-> login]
          /\ urls' = cand
          /\ remaining' = IF anon THEN <<>> ELSE cand
          /\ f' = IF anon /\ DlNew(dlFile).ok THEN StartFetch(cand) ELSE NoFetch
          /\ pc' = IF ~DlNew(dlFile).ok THEN "panicked"
                   ELSE IF anon THEN "anon_fetch" ELSE "auth_check"
          /\ hist' = [registry |-> list,
                      existed |-> {r.id : r \in twdb.tweet}
                                    \cup {twdb.fail[i].tweet_id : i \in 1..Len(twdb.fail)},
                      called |-> {}, rounds |-> 0, settled |-> {},
                      round_called |-> {}]
  /\ twFile' = TRUE
  /\ dlFile' = DlNew(dlFile).file
  /\ counts' = ZeroCounts
  /\ clean' = FALSE
  /\ retries' = 0
  /\ proc' = NoProc
  /\ last' = Did("start", NoMatch, "")
  /\ held' = {}
  /\ UNCHANGED <<input, dl, twdb, dldb>>

Fetching == pc \in {"anon_fetch", "auth_fetch"} /\ f.idx <= Len(f.urls)
Cur == f.urls[f.idx]

Called(u) ==
  [hist EXCEPT !.called = @ \cup {u},
               !.round_called = @ \cup {extract_twitter_url(u)}]

\* The loop body for a URL whose id the Raw Cache holds.
FetchExisted ==
  /\ Fetching
  /\ DlIsExist(dldb, extract_twitter_url(Cur))
  /\ f' = [f EXCEPT !.succeed = Append(@, Cur), !.idx = @ + 1, !.retries_counter = 0]
  /\ last' = Did("existed", Cur, "")
  /\ UNCHANGED <<held, input, dl, pc, cfg, twFile, dlFile, twdb, dldb, urls, remaining, counts, clean,
                 retries, proc, hist>>

\* The seconds slept after a RateLimited result, retries_counter being the
\* count of the earlier ones for this URL.
RateLimitSleep(retries_counter) ==
  IF retries_counter = 0 THEN 60 ELSE 600 + 120 * (retries_counter - 1)

\* A retry loop that gives the URL up at the second RateLimited result.
FetchRateLimitedGivesUp ==
  /\ Fetching
  /\ ~DlIsExist(dldb, extract_twitter_url(Cur))
  /\ f.retries_counter < MaxRateLimited
  /\ f' = IF f.retries_counter = 0 THEN [f EXCEPT !.retries_counter = @ + 1]
          ELSE [f EXCEPT !.failed = Append(@, Cur), !.idx = @ + 1,
                         !.retries_counter = 0]
  /\ last' = [Did("get_tweet", Cur, "RateLimited") EXCEPT
                !.sleep = RateLimitSleep(f.retries_counter)]
  /\ hist' = Called(Cur)
  /\ UNCHANGED <<held, input, dl, pc, cfg, twFile, dlFile, twdb, dldb, urls, remaining, counts, clean,
                 retries, proc>>

\* get_tweet returns Error::RateLimitExceeded: sleep, count, call again.
FetchRateLimited ==
  /\ Fetching
  /\ ~DlIsExist(dldb, extract_twitter_url(Cur))
  /\ f.retries_counter < MaxRateLimited
  /\ f' = [f EXCEPT !.retries_counter = @ + 1]
  /\ last' = [Did("get_tweet", Cur, "RateLimited") EXCEPT
                !.sleep = RateLimitSleep(f.retries_counter)]
  /\ hist' = Called(Cur)
  /\ UNCHANGED <<held, input, dl, pc, cfg, twFile, dlFile, twdb, dldb, urls, remaining, counts, clean,
                 retries, proc>>

\* get_tweet returns another utils::Error (CustomError,
\* TweetJsonSchemaInvalid): break with it, the URL is failed, and the loop
\* sleeps 1 s.
FetchTypedError ==
  /\ Fetching
  /\ ~DlIsExist(dldb, extract_twitter_url(Cur))
  /\ f' = [f EXCEPT !.failed = Append(@, Cur), !.idx = @ + 1, !.retries_counter = 0]
  /\ last' = [Did("get_tweet", Cur, "Error") EXCEPT !.sleep = 1]
  /\ hist' = Called(Cur)
  /\ UNCHANGED <<held, input, dl, pc, cfg, twFile, dlFile, twdb, dldb, urls, remaining, counts, clean,
                 retries, proc>>

\* get_tweet returns an error that is no utils::Error (one of the browser's,
\* passed up by `?`): downcast_ref gives None, no branch breaks or
\* continues, and the loop calls get_tweet again at once.
FetchForeignError ==
  /\ Fetching
  /\ ~DlIsExist(dldb, extract_twitter_url(Cur))
  /\ last' = Did("get_tweet", Cur, "ForeignError")
  /\ hist' = Called(Cur)
  /\ UNCHANGED <<held, input, dl, pc, cfg, twFile, dlFile, twdb, dldb, urls, remaining, counts, clean,
                 retries, f, proc>>

\* The loop without the `if let Err(e) = result` branch.
StoredIgnoringError(r, cached) ==
  /\ dldb' = r.db
  /\ f' = [f EXCEPT !.succeed = Append(@, Cur), !.idx = @ + 1, !.retries_counter = 0]
  /\ last' = [Did("get_tweet", Cur, IF r.ok THEN "Ok" ELSE "OkInsertFailed")
                EXCEPT !.cached = cached, !.sleep = 1]

\* What the loop does with the result r of dl_db.insert: the URL goes on
\* succeed or, when the insert failed, on failed, and the loop sleeps 1 s.
\* cached is what the Raw Cache held for the id when the INSERT ran.
Stored(r, cached) ==
  /\ dldb' = r.db
  /\ f' = IF r.ok
          THEN [f EXCEPT !.succeed = Append(@, Cur), !.idx = @ + 1,
                         !.retries_counter = 0]
          ELSE [f EXCEPT !.failed = Append(@, Cur), !.idx = @ + 1,
                         !.retries_counter = 0]
  /\ last' = [Did("get_tweet", Cur, IF r.ok THEN "Ok" ELSE "OkInsertFailed")
                EXCEPT !.cached = cached, !.sleep = 1]

\* get_tweet returns Ok(json).  The pause of 10 s before every 100th URL of
\* a pass needs a list of 100 URLs and is not reached within MaxLines.
FetchOk ==
  /\ Fetching
  /\ ~DlIsExist(dldb, extract_twitter_url(Cur))
  /\ \E json \in FetchPayloads(extract_twitter_url(Cur)) :
       Stored(DlInsertIn(dlFile, dldb, extract_twitter_url(Cur), Cur, json),
              DlGetJson(dldb, extract_twitter_url(Cur)))
  /\ hist' = Called(Cur)
  /\ UNCHANGED <<held, input, dl, pc, cfg, twFile, dlFile, twdb, urls, remaining, counts, clean,
                 retries, proc>>

\* The end of the pass without `remaining.clear()`.
FetchDoneWithoutClear ==
  /\ pc \in {"anon_fetch", "auth_fetch"}
  /\ f.idx > Len(f.urls)
  /\ remaining' = IF pc = "auth_fetch" THEN remaining \o f.failed ELSE remaining
  /\ held' = IF pc = "auth_fetch" THEN held \ {"remaining"} ELSE held
  /\ proc' = [list |-> f.succeed, idx |-> 1]
  /\ pc' = IF pc = "anon_fetch" THEN "anon_process" ELSE "auth_process"
  /\ last' = Did("fetched", NoMatch, "")
  /\ UNCHANGED <<input, dl, cfg, twFile, dlFile, twdb, dldb, urls, counts, clean, retries, f, hist>>

\* The end of the pass without `drop(remaining)`.
FetchDoneHoldingGuard ==
  /\ pc \in {"anon_fetch", "auth_fetch"}
  /\ f.idx > Len(f.urls)
  /\ remaining' = IF pc = "auth_fetch" THEN f.failed ELSE remaining
  /\ proc' = [list |-> f.succeed, idx |-> 1]
  /\ pc' = IF pc = "anon_fetch" THEN "anon_process" ELSE "auth_process"
  /\ last' = Did("fetched", NoMatch, "")
  /\ UNCHANGED <<held, input, dl, cfg, twFile, dlFile, twdb, dldb, urls, counts, clean, retries, f, hist>>

\* The for loop is over: Ok((succeed, failed)).  The anonymous pass goes on
\* to process succeed; an authenticated round first replaces the remaining
\* list by failed and drops its guard of the list.
FetchDone ==
  /\ pc \in {"anon_fetch", "auth_fetch"}
  /\ f.idx > Len(f.urls)
  /\ remaining' = IF pc = "auth_fetch" THEN f.failed ELSE remaining
  /\ held' = IF pc = "auth_fetch" THEN held \ {"remaining"} ELSE held
  /\ proc' = [list |-> f.succeed, idx |-> 1]
  /\ pc' = IF pc = "anon_fetch" THEN "anon_process" ELSE "auth_process"
  /\ last' = Did("fetched", NoMatch, "")
  /\ UNCHANGED <<input, dl, cfg, twFile, dlFile, twdb, dldb, urls, counts, clean, retries, f, hist>>

Processing == pc \in {"anon_process", "auth_process"} /\ proc.idx <= Len(proc.list)

\* The ids a payload can carry.
PostIds == {u.id : u \in UrlUniverse}

\* The state after the processor call that left r.
Apply(url, r) ==
  /\ CanLock({"progress_count"} \cup processor_locks(r))
  /\ twdb' = r.db
  /\ remaining' = r.remaining
  /\ counts' = r.counts
  /\ pc' = IF r.how = "panic" THEN "panicked" ELSE pc
  /\ proc' = [proc EXCEPT !.idx = @ + 1]
  /\ last' = [Did("processor", url, r.result) EXCEPT !.events = r.events]
  /\ hist' = IF r.how = "ok" /\ r.remaining = remaining
             THEN [hist EXCEPT !.settled = @ \cup {url}]
             ELSE hist
  /\ UNCHANGED <<held, input, dl, cfg, twFile, dlFile, dldb, urls, clean, retries, f>>

\* One processor call of succeed.iter().for_each, the engine's fault given:
\* processor(url, true) in the anonymous pass, processor(url, false) in an
\* authenticated round.
ProcessWith(fault) ==
  \E order \in Perms(PostIds) :
    Apply(proc.list[proc.idx],
          processor(twdb, dldb, remaining, counts, proc.list[proc.idx],
                    pc = "anon_process", order, fault))

\* A processor call on a working storage engine.
Process ==
  /\ Processing
  /\ ProcessWith(NoFault)

\* The pass is processed: after the anonymous pass the failed URLs join the
\* remaining list; `clean = true`.
ProcessDone ==
  /\ pc \in {"anon_process", "auth_process"}
  /\ proc.idx > Len(proc.list)
  /\ CanLock({"progress_count"} \cup status_printer)
  /\ remaining' = IF pc = "anon_process" THEN remaining \o f.failed ELSE remaining
  /\ clean' = TRUE
  /\ pc' = "auth_check"
  /\ last' = Did("processed", NoMatch, "")
  /\ hist' = [hist EXCEPT !.round_called = {}]
  /\ UNCHANGED <<held, input, dl, cfg, twFile, dlFile, twdb, dldb, urls, counts, retries, f, proc>>

\* The loop without the `if let Some(logged_in_fetcher)` around it.
AnotherRoundWithoutLogin == remaining # <<>> /\ retries < MaxRetries

\* The loop condition with `retries <= 5`.
AnotherRoundOffByOne == cfg.login /\ remaining # <<>> /\ retries <= MaxRetries

\* `while !remaining.is_empty() && retries < 5`, with a logged-in fetcher.
AnotherRound == cfg.login /\ remaining # <<>> /\ retries < MaxRetries

\* The head of an authenticated round: lock the remaining list for the
\* loop condition, lock it again into a guard that the round keeps, count
\* the round, evict the remaining ids from the Raw Cache when `clean`, and
\* start the fetch of remaining.clone().
AuthRound ==
  /\ pc = "auth_check"
  /\ CanLock({"remaining"})
  /\ AnotherRound
  /\ held' = held \cup {"remaining"}
  /\ retries' = retries + 1
  /\ dldb' = IF clean THEN DlRemoveAll(dldb, remaining) ELSE dldb
  /\ f' = IF EvictionPanics(dlFile, clean, remaining) THEN f ELSE StartFetch(remaining)
  /\ pc' = IF EvictionPanics(dlFile, clean, remaining) THEN "panicked" ELSE "auth_fetch"
  /\ last' = [Did("round", NoMatch, "") EXCEPT
                !.evicted = IF clean
                            THEN {r.id : r \in dldb \ DlRemoveAll(dldb, remaining)}
                            ELSE {}]
  /\ hist' = [hist EXCEPT !.rounds = @ + 1, !.round_called = {}]
  /\ UNCHANGED <<input, dl, cfg, twFile, dlFile, twdb, urls, remaining, counts, clean, proc>>

\* The run ends: no logged-in fetcher, nothing remaining, or 5 rounds done.
Finish ==
  /\ pc = "auth_check"
  /\ CanLock(IF cfg.login THEN {"remaining", "tweet_without_media"}
             ELSE {"tweet_without_media"})
  /\ ~AnotherRound
  /\ pc' = "done"
  /\ last' = Did("finish", NoMatch, "")
  /\ UNCHANGED <<held, input, dl, cfg, twFile, dlFile, twdb, dldb, urls, remaining, counts, clean,
                 retries, f, proc, hist>>

Next ==
  \/ StartRun
  \/ FetchExisted
  \/ FetchRateLimited
  \/ FetchTypedError
  \/ FetchForeignError
  \/ FetchOk
  \/ FetchDone
  \/ Process
  \/ ProcessDone
  \/ AuthRound
  \/ Finish

Spec == Init /\ [][Next]_vars

\* ------------------------------------------------- a failing environment

\* A processor call during which the storage engine fails every insert into
\* one table of the tweet store.
ProcessFault ==
  /\ Processing
  /\ \E table \in {"tweet", "media", "thread", "fail"}, err \in EngineFaults :
       ProcessWith([table |-> table, err |-> err])

\* get_tweet returns Ok(json) while a concurrent run of the program has
\* stored its own payload for the same URL, after this run's is_exist check:
\* this run's INSERT then collides.  The payload of this run, the same as
\* theirs or another, is dropped.
FetchOkRaced ==
  /\ Fetching
  /\ dlFile = "table"
  /\ ~DlIsExist(dldb, extract_twitter_url(Cur))
  /\ \E theirs \in FetchPayloads(extract_twitter_url(Cur)),
        mine \in FetchPayloads(extract_twitter_url(Cur)) :
       /\ Stored(DlInsert(DlInsert(dldb, extract_twitter_url(Cur), Cur, theirs).db,
                          extract_twitter_url(Cur), Cur, mine),
                 <<theirs>>)
  /\ hist' = Called(Cur)
  /\ UNCHANGED <<held, input, dl, pc, cfg, twFile, dlFile, twdb, urls, remaining, counts, clean,
                 retries, proc>>

\* The first run of the program is under way.
FirstRun == pc \notin {"done", "panicked"}

NextFault ==
  \/ FirstRun /\ Next
  \/ ProcessFault

\* One run of the program, from empty databases, with a storage engine that
\* may fail.
SpecFault == Init /\ [][NextFault]_vars

NextRace ==
  \/ FirstRun /\ Next
  \/ FetchOkRaced

\* One run of the program, from empty databases, with a concurrent run
\* writing the Raw Cache.
SpecRace == Init /\ [][NextRace]_vars

\* ------------------------------------------------------ the processor alone

\* The Raw Caches in which every id of the list has one row, stored under
\* the first URL of the list that carries the id.
PassCaches(list) ==
  {{[id |-> n,
     url |-> list[CHOOSE i \in 1..Len(list) :
                    /\ list[i].id = n
                    /\ \A j \in 1..(i - 1) : list[j].id # n],
     json |-> g[n]] : n \in {list[i].id : i \in 1..Len(list)}} :
     g \in {h \in [{list[i].id : i \in 1..Len(list)} ->
                     UNION {ParsePayloads(n) : n \in PostIds}] :
             \A n \in DOMAIN h : h[n] \in ParsePayloads(n)}}

\* The end of the first fetch pass of a run on an empty tweet store, every
\* URL of the list being on succeed: the anonymous pass, or the first
\* authenticated round of a run without an anonymous pass.
InitProc ==
  /\ pc \in {"anon_process", "auth_process"}
  /\ cfg \in {c \in [anon : BOOLEAN, login : BOOLEAN] :
                /\ c.anon = (pc = "anon_process")
                /\ pc = "auth_process" => c.login}
  /\ twFile = TRUE
  /\ twdb = EmptyTweetDB
  /\ dlFile = "table"
  /\ urls \in RegistryLists \ {<<>>}
  /\ dldb \in PassCaches(urls)
  /\ remaining = <<>>
  /\ counts = ZeroCounts
  /\ clean = FALSE
  /\ retries = IF pc = "auth_process" THEN 1 ELSE 0
  /\ f = [urls |-> urls, idx |-> Len(urls) + 1, succeed |-> urls, failed |-> <<>>,
          retries_counter |-> 0]
  /\ proc = [list |-> urls, idx |-> 1]
  /\ last = Did("fetched", NoMatch, "")
  /\ hist = [registry |-> urls, existed |-> {}, called |-> {}, rounds |-> retries,
             settled |-> {}, round_called |-> {}]
  /\ dl = NoDownload
  /\ input = <<>>
  /\ held = {}

NextProc ==
  \/ Process
  \/ ProcessDone

\* The processing of the succeed list of one pass, over every payload the
\* parser tells apart.
SpecProc == InitProc /\ [][NextProc]_vars

\* --------------------------------------------------------- the parser alone

\* A video with the media id n: the thumbnail n and the variants, the url
\* of the i-th being 100 + i.
Video(n, kind, bitrates) ==
  [id_str |-> n, type |-> kind, media_url_https |-> n,
   variants |-> [i \in 1..Len(bitrates) |-> [bitrate |-> bitrates[i], url |-> 100 + i]],
   width |-> n, height |-> n]

\* A post whose media are a photo and a video or an animated gif:
\* extended_entities has the video with its variants, entities shows it as
\* a photo.  The bitrates are 0, 320 and 800, 0 being also the bitrate of a
\* variant that gives none (default_bitrate).
VideoPayloads(n) ==
  {Timeline(<<ItemEntry(n, TweetResult(
                [Item(n, "video", 0, 0, <<Photo(n), Photo(n + 10)>>)
                   EXCEPT !.has_extended = TRUE,
                          !.extended = <<Photo(n), Video(n + 10, kind, bs)>>]))>>) :
     <<kind, bs>> \in {"video", "animated_gif"}
                        \X UNION {[1..k -> {0, 320, 800}] : k \in 1..MaxVariants}}

\* A TweetWithVisibilityResults around the result r.
Wrapped(r) == [r EXCEPT !.wrapped = TRUE]

\* A tombstone whose tombstone object is of another type than TextTombstone.
OtherTombstoneResult ==
  [wrapped |-> FALSE, typename |-> "TweetTombstone",
   tombstone_type |-> "OtherTombstone", text |-> {}, item |-> <<>>]

\* A result that is neither a Tweet nor a tombstone.
UnavailableResult ==
  [wrapped |-> FALSE, typename |-> "TweetUnavailable", tombstone_type |-> "",
   text |-> {}, item |-> <<>>]

\* The posts 1 and 2 as the entries show them: outside a self-thread, the
\* root of the self-thread 1, or a reply in it.
EntryTweets ==
  {Item(n, "post", tr[1], tr[2], <<>>) :
     <<n, tr>> \in PostIds \X {<<0, 0>>, <<1, 0>>, <<1, 1>>}}

\* The timeline entries of the payloads.
EntryUniverse ==
  {ItemEntry(t.rest_id, TweetResult(t)) : t \in EntryTweets}
    \cup {ItemEntry(n, TombstoneResult(text)) :
            <<n, text>> \in PostIds \X {{}, {"ACCOUNT_SUSPENDED"},
                                        {"AUDLT_CONTENT", "USER_RESTRICTED"}}}
    \cup {ItemEntry(n, OtherTombstoneResult) : n \in PostIds}
    \cup {ItemEntry(n, Wrapped(TombstoneResult({"ACCOUNT_SUSPENDED"}))) : n \in PostIds}
    \cup {ItemEntry(1, Wrapped(TweetResult(Item(1, "post", 0, 0, <<>>)))),
          ItemEntry(2, UnavailableResult),
          ModuleEntry(<<TweetResult(Item(2, "post", 1, 1, <<>>))>>),
          ModuleEntry(<<TombstoneResult({"ACCOUNT_SUSPENDED"}),
                        TweetResult(Item(1, "post", 1, 0, <<>>))>>),
          [entryId |-> 0, entryType |-> "TimelineTimelineCursor", results |-> <<>>]}

\* The payloads given to the parser: the timelines of up to MaxEntries
\* entries, a text tombstone of the post 1 for every set of known phrases,
\* and the posts with a video.
ParseInputs ==
  {Timeline(es) : es \in UNION {[1..k -> EntryUniverse] : k \in 0..MaxEntries}}
    \cup {Timeline(<<ItemEntry(1, TombstoneResult(text))>>) :
            text \in SUBSET {Phrases[i] : i \in 1..Len(Phrases)}}
    \cup VideoPayloads(1)

\* The first fetch pass of a run on an empty tweet store has fetched the
\* one URL of the list, of the post 1 or 2, and the Raw Cache holds its
\* payload, one of payloads.
ParseStart(payloads) ==
  /\ pc \in {"anon_process", "auth_process"}
  /\ cfg \in {c \in [anon : BOOLEAN, login : BOOLEAN] :
                /\ c.anon = (pc = "anon_process")
                /\ pc = "auth_process" => c.login}
  /\ twFile = TRUE
  /\ twdb = EmptyTweetDB
  /\ dlFile = "table"
  /\ urls \in {<<MkUrl("a", n)>> : n \in PostIds}
  /\ dldb \in {{[id |-> urls[1].id, url |-> urls[1], json |-> p]} : p \in payloads}
  /\ remaining = <<>>
  /\ counts = ZeroCounts
  /\ clean = FALSE
  /\ retries = IF pc = "auth_process" THEN 1 ELSE 0
  /\ f = [urls |-> urls, idx |-> Len(urls) + 1, succeed |-> urls, failed |-> <<>>,
          retries_counter |-> 0]
  /\ proc = [list |-> urls, idx |-> 1]
  /\ last = Did("fetched", NoMatch, "")
  /\ hist = [registry |-> urls, existed |-> {}, called |-> {}, rounds |-> retries,
             settled |-> {}, round_called |-> {}]
  /\ dl = NoDownload
  /\ input = <<>>
  /\ held = {}

InitParse == ParseStart(ParseInputs)

\* The parse and the processing of one payload, over the payloads above.
SpecParse == InitParse /\ [][NextProc]_vars

\* The payloads by their instructions: up to MaxInstructions of them, each
\* a TimelineAddEntries with the post 1, a TimelineAddEntries with the post
\* 2, or an instruction of another type.
InstructionPayloads ==
  {[Timeline(<<>>) EXCEPT !.instructions = is] :
     is \in UNION {[1..k ->
                      {[type |-> "TimelineAddEntries", has_entries |-> TRUE,
                        entries |-> <<ItemEntry(n, TweetResult(Item(n, "post", 0, 0, <<>>)))>>] :
                         n \in PostIds}
                        \cup {[type |-> "TimelineTerminateTimeline",
                               has_entries |-> FALSE, entries |-> <<>>]}] :
                   k \in 0..MaxInstructions}}

InitInstructions == ParseStart(InstructionPayloads)

\* The parse and the processing of one payload, over the instruction lists.
SpecInstructions == InitInstructions /\ [][NextProc]_vars

\* The payloads by the media lists of their one post: entities.media with
\* up to MaxMedia photos (none for an absent list), and extended_entities
\* absent or with a list of its own of up to MaxMedia photos.
MediaPayloads ==
  {Timeline(<<ItemEntry(n, TweetResult(
                [Item(n, "media", 0, 0, [i \in 1..k |-> Photo(n + 10 * (i - 1))])
                   EXCEPT !.has_extended = h,
                          !.extended = [i \in 1..e |-> Photo(n + 10 * (i - 1))]]))>>) :
     <<n, k, h, e>> \in {x \in PostIds \X (0..MaxMedia) \X BOOLEAN \X (0..MaxMedia) :
                            ~x[3] => x[4] = 0}}

\* The condition of the last debug_assert! of get_medias.
debug_assert_medias(t) == Len(get_medias(t)) = Len(t.entities)

\* The processor in a build with debug assertions: get_medias panics on an
\* item that fails its assertion, before any insert.
processor_debug(db, cache, rem, cnt, url, retry_restricted, order, fault) ==
  LET id == extract_twitter_url(url)
      json == DlGetJson(cache, id)
      res == extract_all_tweets(id, json[1])
      thread == get_thread(id, res.tweets)
      items == IF thread = {} THEN {id} \cap DOMAIN res.tweets ELSE thread
  IN IF /\ json # <<>>
        /\ res.ok
        /\ \E n \in items : ~debug_assert_medias(res.tweets[n])
     THEN Out(db, rem, cnt, "panic", {}, "assertion")
     ELSE processor(db, cache, rem, cnt, url, retry_restricted, order, fault)

\* A processor call of a build with debug assertions.
ProcessDebug ==
  /\ Processing
  /\ \E order \in Perms(PostIds) :
       Apply(proc.list[proc.idx],
             processor_debug(twdb, dldb, remaining, counts, proc.list[proc.idx],
                             pc = "anon_process", order, NoFault))

InitMedias == ParseStart(MediaPayloads)

\* The parse and the processing of one payload, over the media lists, in a
\* release build and in a build with debug assertions.
SpecMedias == InitMedias /\ [][Process \/ ProcessDebug \/ ProcessDone]_vars

\* ------------------------------------------------- read_url_list alone

\* The URL list file is there with its lines and has not been read.
InitRead ==
  /\ pc = "read"
  /\ input \in InputFiles
  /\ held = {}
  /\ cfg = [anon |-> FALSE, login |-> FALSE]
  /\ twFile = FALSE
  /\ twdb = EmptyTweetDB
  /\ dlFile = "table"
  /\ dldb = {}
  /\ urls = <<>>
  /\ remaining = <<>>
  /\ counts = ZeroCounts
  /\ clean = FALSE
  /\ retries = 0
  /\ f = NoFetch
  /\ proc = NoProc
  /\ last = Did("init", NoMatch, "")
  /\ hist = [registry |-> <<>>, existed |-> {}, called |-> {}, rounds |-> 0,
             settled |-> {}, round_called |-> {}]
  /\ dl = NoDownload

\* let urls = read_url_list(url_list_path)?
ReadUrlList ==
  /\ pc = "read"
  /\ urls' = read_url_list(input)
  /\ pc' = "read_done"
  /\ last' = Did("read_url_list", NoMatch, "")
  /\ hist' = [hist EXCEPT !.registry = read_url_list(input)]
  /\ UNCHANGED <<held, input, dl, cfg, twFile, twdb, dlFile, dldb, remaining, counts, clean,
                 retries, f, proc>>

SpecRead == InitRead /\ [][ReadUrlList]_vars

\* ------------------------------------------- extract_twitter_url on the text

\* The text of a URL is the sequence of its pieces: every "/" and every
\* character that is a decimal digit is a piece of its own; "U+0661" is
\* the one character ARABIC-INDIC DIGIT ONE, "\n" a line feed.
AsciiDigits == <<"0", "1", "2", "3", "4", "5", "6", "7", "8", "9">>

\* The characters \d matches: the decimal digits of every script.
IsDigit(c) == c = "U+0661" \/ \E i \in 1..10 : AsciiDigits[i] = c

HostPrefix == <<"https:", "/", "/", "twitter.com", "/">>
StatusPart == <<"/", "status", "/">>

\* TWEET_URL_EXTRACTOR.captures(url) for the pattern
\* https://twitter.com/(.*?)/status/(\d*): the leftmost match, <<>> for none.
\* From the end of the host on, group 1 runs to the first "/status/" that
\* no line feed comes before, and group 2 is the digits after it, up to the
\* first piece that is no digit.
TWEET_URL_EXTRACTOR(url) ==
  LET HasAt(i, lit) ==
        /\ i + Len(lit) - 1 <= Len(url)
        /\ \A k \in 1..Len(lit) : url[i + k - 1] = lit[k]
      Ends(i) == {j \in i..Len(url) :
                    /\ HasAt(j, StatusPart)
                    /\ \A k \in i..(j - 1) : url[k] # "\n"}
      starts == {i \in 1..Len(url) :
                   HasAt(i, HostPrefix) /\ Ends(i + Len(HostPrefix)) # {}}
  IN IF starts = {} THEN <<>>
     ELSE LET i == (CHOOSE x \in starts : \A o \in starts : x <= o) + Len(HostPrefix)
              j == CHOOSE e \in Ends(i) : \A o \in Ends(i) : e <= o
              d == j + Len(StatusPart)
              stops == {k \in d..Len(url) : ~IsDigit(url[k])}
              stop == IF stops = {} THEN Len(url) + 1
                      ELSE CHOOSE k \in stops : \A o \in stops : k <= o
          IN <<[username |-> SubSeq(url, i, j - 1),
                status_id |-> SubSeq(url, d, stop - 1)]>>

\* The digits of u64::MAX, 18446744073709551615.
U64MaxDigits ==
  <<"1", "8", "4", "4", "6", "7", "4", "4", "0", "7", "3", "7", "0", "9", "5", "5",
    "1", "6", "1", "5">>

\* str::parse::<u64>: <<>> for an error, which the empty text, a character
\* that is not one of 0..9, and a number above u64::MAX give; the number is
\* given by its digits without leading zeros.
ParseU64(ds) ==
  LET Value(c) == (CHOOSE i \in 1..10 : AsciiDigits[i] = c) - 1
      nonzero == {k \in 1..Len(ds) : ds[k] # "0"}
      n == IF nonzero = {} THEN SubSeq(ds, Len(ds), Len(ds))
           ELSE SubSeq(ds, CHOOSE k \in nonzero : \A o \in nonzero : k <= o, Len(ds))
      m == U64MaxDigits
  IN IF ds = <<>> THEN <<>>
     ELSE IF \E i \in 1..Len(ds) : \A k \in 1..10 : AsciiDigits[k] # ds[i] THEN <<>>
     ELSE IF \/ Len(n) > Len(m)
             \/ /\ Len(n) = Len(m)
                /\ \E k \in 1..Len(n) :
                     /\ \A j \in 1..(k - 1) : n[j] = m[j]
                     /\ Value(n[k]) > Value(m[k])
     THEN <<>>
     ELSE <<n>>

\* utils::extract_twitter_url(url) on the text: <<>> is None.
extract_twitter_url_text(url) ==
  IF TWEET_URL_EXTRACTOR(url) = <<>> THEN <<>>
  ELSE IF ParseU64(TWEET_URL_EXTRACTOR(url)[1].status_id) = <<>> THEN <<>>
  ELSE <<[username |-> TWEET_URL_EXTRACTOR(url)[1].username,
          status_id |-> ParseU64(TWEET_URL_EXTRACTOR(url)[1].status_id)[1]]>>

\* The text of the canonical URL of the handle a and the id n.
CanonicalText(a, n) == HostPrefix \o a \o StatusPart \o n

\* Handles without a "/", ids as their decimal digits, and what follows the
\* id: nothing, a query, a path, a blank and words, or text that begins
\* with a digit of another script.
Handles == {<<>>, <<"a">>, <<"a_", "7">>, <<"status">>}
StatusIds == {<<"0">>, <<"7">>, <<"1", "2">>, U64MaxDigits}
TrailingTexts ==
  {<<>>, <<"?s=", "2", "0">>, <<"/", "photo", "/", "1">>, <<" ", "via", " ", "7">>,
   <<"U+0661">>}

UrlTexts ==
  {CanonicalText(a, n) \o t : a \in Handles, n \in StatusIds, t \in TrailingTexts}
    \cup {HostPrefix \o <<"a">> \o StatusPart,
          HostPrefix \o <<"a">> \o StatusPart \o <<"1">> \o U64MaxDigits,
          <<"see", " ">> \o CanonicalText(<<"a">>, <<"7">>),
          HostPrefix \o <<"a", "/", "likes">>}

\* A text is given to extract_twitter_url.
InitExtract ==
  /\ pc = "extract"
  /\ input \in {<<t>> : t \in UrlTexts}
  /\ held = {}
  /\ cfg = [anon |-> FALSE, login |-> FALSE]
  /\ twFile \in BOOLEAN
  /\ twdb = EmptyTweetDB
  /\ dlFile = "table"
  /\ dldb = {}
  /\ urls = <<>>
  /\ remaining = <<>>
  /\ counts = ZeroCounts
  /\ clean = FALSE
  /\ retries = 0
  /\ f = NoFetch
  /\ proc = NoProc
  /\ last = Did("init", NoMatch, "")
  /\ hist = [registry |-> <<>>, existed |-> {}, called |-> {}, rounds |-> 0,
             settled |-> {}, round_called |-> {}]
  /\ dl = NoDownload

\* extract_twitter_url(url): last.cached is what it returned.
ExtractTwitterUrl ==
  /\ pc = "extract"
  /\ pc' = "extracted"
  /\ last' = [Did("extract_twitter_url", NoMatch, "")
                EXCEPT !.cached = extract_twitter_url_text(input[1])]
  /\ UNCHANGED <<held, input, dl, cfg, twFile, twdb, dlFile, dldb, urls, remaining, counts,
                 clean, retries, f, proc, hist>>

SpecExtract == InitExtract /\ [][ExtractTwitterUrl]_vars

\* URL_EXTRACTOR.captures(line), group 1, on the text of a line, for the
\* pattern (https://twitter.com/.*?/status/\d+)\b: <<>> for no match, else
\* the text from the host to the last of the digits after the first
\* "/status/" that no line feed comes before and that has a digit after it
\* and then the end of the line or a piece that begins with no word
\* character; the digits are those of every script, and they are word
\* characters.
URL_EXTRACTOR_TEXT(line) ==
  LET HasAt(i, lit) ==
        /\ i + Len(lit) - 1 <= Len(line)
        /\ \A k \in 1..Len(lit) : line[i + k - 1] = lit[k]
      Stop(d) == IF \A k \in d..Len(line) : IsDigit(line[k]) THEN Len(line) + 1
                 ELSE CHOOSE k \in d..Len(line) :
                        ~IsDigit(line[k]) /\ \A o \in d..(k - 1) : IsDigit(line[o])
      Ends(i) == {j \in i..Len(line) :
                    /\ HasAt(j, StatusPart)
                    /\ \A k \in i..(j - 1) : line[k] # "\n"
                    /\ Stop(j + Len(StatusPart)) > j + Len(StatusPart)
                    /\ \/ Stop(j + Len(StatusPart)) > Len(line)
                       \/ line[Stop(j + Len(StatusPart))] \in {"/", "?s=", " ", "\n"}}
      starts == {i \in 1..Len(line) :
                   HasAt(i, HostPrefix) /\ Ends(i + Len(HostPrefix)) # {}}
  IN IF starts = {} THEN <<>>
     ELSE LET i == CHOOSE x \in starts : \A o \in starts : x <= o
              j == CHOOSE e \in Ends(i + Len(HostPrefix)) :
                     \A o \in Ends(i + Len(HostPrefix)) : e <= o
          IN <<SubSeq(line, i, Stop(j + Len(StatusPart)) - 1)>>

\* read_url_list on a file of the one line input[1]: urls is the list it
\* gives, the texts of the URLs.
EmitUrl ==
  /\ pc = "extract"
  /\ pc' = "emitted"
  /\ urls' = URL_EXTRACTOR_TEXT(input[1])
  /\ last' = Did("read_url_list", NoMatch, "")
  /\ UNCHANGED <<held, input, dl, cfg, twFile, twdb, dlFile, dldb, remaining, counts, clean,
                 retries, f, proc, hist>>

\* The digits of i64::MAX, 9223372036854775807.
I64MaxDigits ==
  <<"9", "2", "2", "3", "3", "7", "2", "0", "3", "6", "8", "5", "4", "7", "7", "5",
    "8", "0", "7">>

\* params![id] of an id: u64, given by its digits without leading zeros:
\* the conversion to the INTEGER of the engine fails above i64::MAX, and
\* the query then ends with ToSqlConversionFailure.
ToSqlFails(n) ==
  LET Value(c) == (CHOOSE i \in 1..10 : AsciiDigits[i] = c) - 1
      m == I64MaxDigits
  IN \/ Len(n) > Len(m)
     \/ /\ Len(n) = Len(m)
        /\ \E k \in 1..Len(n) :
             /\ \A j \in 1..(k - 1) : n[j] = m[j]
             /\ Value(n[k]) > Value(m[k])

\* The filter of the candidates on the first URL of the list, when the
\* tweet store file existed: extract_twitter_url(p).unwrap().1, a None
\* panics; then db.is_exist(id), whose unwrap panics when the id does not
\* convert.
ExtractEmitted ==
  /\ pc = "emitted"
  /\ twFile
  /\ urls # <<>>
  /\ pc' = IF extract_twitter_url_text(urls[1]) = <<>> THEN "panicked"
           ELSE IF ToSqlFails(extract_twitter_url_text(urls[1])[1].status_id)
           THEN "panicked"
           ELSE "extracted"
  /\ last' = [Did("extract_twitter_url", NoMatch, "")
                EXCEPT !.cached = extract_twitter_url_text(urls[1])]
  /\ UNCHANGED <<held, input, dl, cfg, twFile, twdb, dlFile, dldb, urls, remaining, counts,
                 clean, retries, f, proc, hist>>

\* The head of the fetch pass on the first URL of the list, when there was
\* no tweet store file and so no filter: extract_twitter_url(url).unwrap().1,
\* a None panics; then dl_db.is_exist(id), which is false when the id does
\* not convert (unwrap_or(false)).
ExtractFetched ==
  /\ pc = "emitted"
  /\ ~twFile
  /\ urls # <<>>
  /\ pc' = IF extract_twitter_url_text(urls[1]) = <<>> THEN "panicked" ELSE "extracted"
  /\ last' = [Did("extract_twitter_url", NoMatch, "")
                EXCEPT !.cached = extract_twitter_url_text(urls[1])]
  /\ UNCHANGED <<held, input, dl, cfg, twFile, twdb, dlFile, dldb, urls, remaining, counts,
                 clean, retries, f, proc, hist>>

\* A line is read to the registry and the id of its URL is extracted.
SpecRegistry == InitExtract /\ [][EmitUrl \/ ExtractEmitted \/ ExtractFetched]_vars

\* ------------------------------------------------------- the summarizer

\* make_existed_url(urls, filter, warn_msg) of run_summarizer: filter is the
\* closure `!db.is_exist(id of the URL)`, as the function it is on the
\* URLs.  The URLs that pass it are collected as not_in_dldb; when there
\* are none the list is returned as it is, else the URLs of the list that
\* not_in_dldb contains.
make_existed_url(us, filter) ==
  LET not_in_dldb == SelectSeq(us, LAMBDA p : filter[p])
  IN IF not_in_dldb = <<>> THEN us
     ELSE SelectSeq(us, LAMBDA p : \E i \in 1..Len(not_in_dldb) : not_in_dldb[i] = p)

\* TweetDB::get_tweet, by the kind of its result: "Ok" on a tweet row, else
\* the reason of the first fail row of the id, else "CustomError".
get_tweet(db, id) ==
  IF \E r \in db.tweet : r.id = id THEN "Ok"
  ELSE IF \E i \in 1..Len(db.fail) : db.fail[i].tweet_id = id
  THEN db.fail[CHOOSE i \in 1..Len(db.fail) :
                 /\ db.fail[i].tweet_id = id
                 /\ \A j \in 1..(i - 1) : db.fail[j].tweet_id # id].type
  ELSE "CustomError"

\* run_summarizer has read the URL list and opened the two databases: the
\* Raw Cache holds any of the posts, and the tweet store holds of each post
\* a tweet row, a fail row or nothing.
InitSummary ==
  /\ pc = "summary"
  /\ urls \in RegistryLists
  /\ dlFile = "table"
  /\ dldb \in {{[id |-> n, url |-> MkUrl("a", n), json |-> SinglePayload(n)] : n \in c} :
                 c \in SUBSET PostIds}
  /\ twFile = TRUE
  /\ twdb \in {[EmptyTweetDB EXCEPT
                  !.tweet = {as_tweet(Item(n, "post", 0, 0, <<>>)) : n \in t},
                  !.fail = [i \in 1..Len(fl) |->
                              [tweet_id |-> fl[i], url |-> MkUrl("a", fl[i]),
                               type |-> "deleted"]]] :
                 <<t, fl>> \in {x \in (SUBSET PostIds) \X {<<>>, <<1>>, <<2>>, <<1, 2>>} :
                                  \A i \in 1..Len(x[2]) : x[2][i] \notin x[1]}}
  /\ cfg = [anon |-> FALSE, login |-> FALSE]
  /\ remaining = <<>>
  /\ counts = ZeroCounts
  /\ clean = FALSE
  /\ retries = 0
  /\ f = NoFetch
  /\ proc = NoProc
  /\ last = Did("read_url_list", NoMatch, "")
  /\ hist = [registry |-> urls, existed |-> {}, called |-> {}, rounds |-> 0,
             settled |-> {}, round_called |-> {}]
  /\ dl = NoDownload
  /\ input = <<>>
  /\ held = {}

\* let urls = make_existed_url(urls, .. !dldb.is_exist(..), "Download DB").
SummarizeDl ==
  /\ pc = "summary"
  /\ pc' = "summary_dl"
  /\ urls' = make_existed_url(urls, [p \in UrlUniverse |->
                                     ~DlIsExist(dldb, extract_twitter_url(p))])
  /\ last' = Did("make_existed_url", NoMatch, "Download DB")
  /\ UNCHANGED <<held, input, dl, cfg, twFile, twdb, dlFile, dldb, remaining, counts, clean,
                 retries, f, proc, hist>>

\* let urls = make_existed_url(urls, .. !twdb.is_exist(..), "Tweet DB").
SummarizeTw ==
  /\ pc = "summary_dl"
  /\ pc' = "summary_tw"
  /\ urls' = make_existed_url(urls, [p \in UrlUniverse |->
                                     ~TwIsExist(twdb, extract_twitter_url(p))])
  /\ last' = Did("make_existed_url", NoMatch, "Tweet DB")
  /\ UNCHANGED <<held, input, dl, cfg, twFile, twdb, dlFile, dldb, remaining, counts, clean,
                 retries, f, proc, hist>>

\* The for_each over the URLs that are left, and status_printer: a tweet
\* row counts as a success, a fail row adds to the counter of its reason,
\* and a URL with neither goes on other_failed, kept here in f.failed.  The
\* closure runs on the workers of the parallel iterator in no fixed order,
\* each push under its own lock, so other_failed has its URLs in any order.
\* The media counts of the summary are left out.
SummarizeTally ==
  /\ pc = "summary_tw"
  /\ pc' = "summary_done"
  /\ counts' = [c \in DOMAIN counts |->
                  Len(SelectSeq(urls, LAMBDA p :
                        LET t == get_tweet(twdb, extract_twitter_url(p))
                        IN IF t = "Ok" THEN c = "success"
                           ELSE t # "CustomError" /\ c = CountField(t)))]
  /\ \E other_failed \in Perms({urls[i] : i \in {k \in 1..Len(urls) :
                get_tweet(twdb, extract_twitter_url(urls[k])) = "CustomError"}}) :
       f' = [f EXCEPT !.failed = other_failed]
  /\ last' = Did("status_printer", NoMatch, "")
  /\ UNCHANGED <<held, input, dl, cfg, twFile, twdb, dlFile, dldb, urls, remaining, clean,
                 retries, proc, hist>>

\* One run of the summarizer.
SpecSummary == InitSummary /\ [][SummarizeDl \/ SummarizeTw \/ SummarizeTally]_vars

\* ------------------------------------------------------ the Raw Cache alone

\* The json texts the calls store.
CacheJsons == {SinglePayload(1), DeletedPayload}

\* A download db file that is there, with or without its table, and no run
\* of the program under way.
InitCache ==
  /\ pc = "idle"
  /\ cfg = [anon |-> FALSE, login |-> FALSE]
  /\ twFile = FALSE
  /\ twdb = EmptyTweetDB
  /\ dlFile \in {"empty", "table"}
  /\ dldb = {}
  /\ urls = <<>>
  /\ remaining = <<>>
  /\ counts = ZeroCounts
  /\ clean = FALSE
  /\ retries = 0
  /\ f = NoFetch
  /\ proc = NoProc
  /\ last = Did("init", NoMatch, "")
  /\ hist = [registry |-> <<>>, existed |-> {}, called |-> {}, rounds |-> 0,
             settled |-> {}, round_called |-> {}]
  /\ dl = NoDownload
  /\ input = <<>>
  /\ held = {}

\* A call insert(id, url, json), of any id with any url.
CacheInsert ==
  /\ \E id \in PostIds, url \in UrlUniverse, json \in CacheJsons :
       /\ dldb' = DlInsertIn(dlFile, dldb, id, url, json).db
       /\ last' = [Did("insert", url,
                       IF DlInsertIn(dlFile, dldb, id, url, json).ok THEN "Ok" ELSE "Err")
                     EXCEPT !.id = id, !.cached = <<json>>]
  /\ UNCHANGED <<held, input, dl, pc, cfg, twFile, dlFile, twdb, urls, remaining, counts, clean,
                 retries, f, proc, hist>>

\* A call remove(id): the DELETE, which fails without the table.
CacheRemove ==
  /\ \E id \in PostIds :
       /\ dldb' = DlRemove(dldb, id)
       /\ last' = [Did("remove", NoMatch, IF dlFile = "table" THEN "Ok" ELSE "Err")
                     EXCEPT !.id = id]
  /\ UNCHANGED <<held, input, dl, pc, cfg, twFile, dlFile, twdb, urls, remaining, counts, clean,
                 retries, f, proc, hist>>

NextCache ==
  \/ CacheInsert
  \/ CacheRemove

\* The calls of TweetDownloadDB on one file, in any order.
SpecCache == InitCache /\ [][NextCache]_vars

\* ----------------------------------------------------------- the downloader

\* A URL is the sequence of its pieces, every "/" and every "?" being a
\* piece of its own, and a file name is the sequence of its pieces.
\* EXTRACTOR.captures(url) for the pattern .*/(.*?)(\?.*|$): <<>> when the
\* URL has no "/", else group 1, the pieces after the last "/" up to the
\* first "?" that follows, and group 2, that "?" and the rest.
EXTRACTOR(url) ==
  IF \A i \in 1..Len(url) : url[i] # "/" THEN <<>>
  ELSE LET slash == CHOOSE i \in 1..Len(url) :
                      url[i] = "/" /\ \A j \in (i + 1)..Len(url) : url[j] # "/"
           marks == {i \in (slash + 1)..Len(url) : url[i] = "?"}
           quest == IF marks = {} THEN Len(url) + 1
                    ELSE CHOOSE i \in marks : \A j \in marks : i <= j
       IN <<[name |-> SubSeq(url, slash + 1, quest - 1),
             query |-> SubSeq(url, quest, Len(url))]>>

\* extract_fn.
extract_fn(url) ==
  IF EXTRACTOR(url) = <<>> THEN <<>> ELSE EXTRACTOR(url)[1].name

\* is_need_orig: a name that does not end with .mp4 and a group 2 of at
\* most one character.
is_need_orig(url) ==
  IF EXTRACTOR(url) = <<>> THEN FALSE
  ELSE IF EXTRACTOR(url)[1].name # <<>>
            /\ EXTRACTOR(url)[1].name[Len(EXTRACTOR(url)[1].name)] = ".mp4"
       THEN FALSE
       ELSE ~(Len(EXTRACTOR(url)[1].query) > 1)

\* `.take(10)`.
TakeLimit == 10

\* The task of the row (author, url), its file not being looked for.
TaskAll(author, url) ==
  [url |-> url, path |-> author, filename |-> extract_fn(url)]

\* The task of the row (author, url).
TaskFor(author, url) ==
  TaskAll(author, IF is_need_orig(url) THEN url \o <<"?", "name=orig">> ELSE url)

\* The task pushed after `// test`.
TestTask ==
  [url |-> <<"https://pbs.twimg.com/media", "/", "FR0utoaakaAUgnee", ".jpg",
             "?", "name=orig">>,
   path |-> "test", filename |-> <<"test", ".jpg">>]

\* The rows of SELECT t.author, m.url FROM tweet t INNER JOIN media m WHERE
\* t.id == m.tweet_id, scan being the media rows in the order the join
\* visits them.
QueryRows(tweets, scan) ==
  FlattenSeq([i \in 1..Len(scan) |->
                IF \E t \in tweets : t.id = scan[i].tweet_id
                THEN <<[author |-> (CHOOSE t \in tweets : t.id = scan[i].tweet_id).author,
                        url |-> scan[i].url]>>
                ELSE <<>>])

\* The tasks of the first rows whose file is not on disk.
MissingTasks(rows, disk) ==
  SelectSeq([i \in 1..Len(rows) |-> TaskFor(rows[i].author, rows[i].url)],
            LAMBDA t : <<t.path, t.filename>> \notin disk)

\* The task list with which the round loop starts.
InitialTasks(rows, disk) ==
  MissingTasks(SubSeq(rows, 1, IF Len(rows) < TakeLimit THEN Len(rows) ELSE TakeLimit),
               disk)
    \o <<TestTask>>

\* The media URLs of the stores: a photo, a video with a query, and the
\* photo's file under a query.
MediaUrls ==
  <<<<"https://h", "/", "1", ".jpg">>,
    <<"https://h", "/", "2", ".mp4", "?", "tag=12">>,
    <<"https://h", "/", "1", ".jpg", "?", "name=small">>>>

MediaRow(i, t, u) ==
  [id |-> i, tweet_id |-> t, url |-> u, width |-> 1, height |-> 1, no |-> 1,
   type |-> "photo"]

\* The post of the author a; the media rows of the post 2 have no post row.
DlTweets == {[id |-> 1, author |-> "a", content |-> "solo", create_time |-> 7]}

\* A store of more rows than TakeLimit whose first TakeLimit files are on
\* disk.
LongScan ==
  [i \in 1..(TakeLimit + 1) |-> MediaRow(i, 1, <<"https://h", "/", ToString(i), ".jpg">>)]
LongDisk == {<<"a", <<ToString(i), ".jpg">>>> : i \in 1..TakeLimit}

\* The stores and disks the downloader is run on: up to MaxMedia media
\* rows of different URLs, stored in the order of MediaUrls, each of the
\* post 1 or 2, and any of two files on disk.
DlInputs ==
  {[scan |-> [i \in 1..n |-> MediaRow(i, ts[i], MediaUrls[us[i]])], disk |-> disk] :
     <<n, us, ts, disk>> \in
       {x \in UNION {{n} \X [1..n -> 1..Len(MediaUrls)] \X [1..n -> {1, 2}]
                       \X SUBSET {<<"a", <<"1", ".jpg">>>>, <<"a", <<"2", ".mp4">>>>} :
                     n \in 0..MaxMedia} :
          \A i, j \in 1..x[1] : i < j => x[2][i] < x[2][j]}}
    \cup {[scan |-> LongScan, disk |-> LongDisk]}

\* run_downloader is started on an existing tweet db file.
InitDl ==
  /\ pc = "dl_start"
  /\ cfg = [anon |-> FALSE, login |-> FALSE]
  /\ twFile = TRUE
  /\ dlFile = "absent"
  /\ dldb = {}
  /\ urls = <<>>
  /\ remaining = <<>>
  /\ counts = ZeroCounts
  /\ clean = FALSE
  /\ retries = 0
  /\ f = NoFetch
  /\ proc = NoProc
  /\ last = Did("init", NoMatch, "")
  /\ hist = [registry |-> <<>>, existed |-> {}, called |-> {}, rounds |-> 0,
             settled |-> {}, round_called |-> {}]
  /\ input = <<>>
  /\ held = {}
  /\ \E in \in DlInputs :
       /\ twdb = [EmptyTweetDB EXCEPT !.tweet = DlTweets,
                                      !.media = {in.scan[i] : i \in 1..Len(in.scan)}]
       /\ dl = [NoDownload EXCEPT !.scan = in.scan, !.disk = in.disk]

DlUnchanged ==
  UNCHANGED <<held, input, cfg, twFile, twdb, dlFile, dldb, urls, remaining, counts, clean,
              retries, f, proc, last, hist>>

\* The resource of a task that fails with ResourceNotFound, for ever.
Absent == -1

\* What the network holds for the tasks: for each its resource is Absent,
\* or its download has a number of failures with another error before it
\* succeeds.
Environments(tasks) ==
  [{tasks[i] : i \in 1..Len(tasks)} -> {Absent} \cup (0..MaxFlaky)]

\* The task list is built (lines 69-104).
DlBuildTasks ==
  /\ pc = "dl_start"
  /\ pc' = "dl_loop"
  /\ \E env \in Environments(InitialTasks(QueryRows(twdb.tweet, dl.scan), dl.disk)) :
       dl' = [dl EXCEPT !.tasks = InitialTasks(QueryRows(twdb.tweet, dl.scan), dl.disk),
                        !.env = env,
                        !.fails = [t \in DOMAIN env |-> 0]]
  /\ DlUnchanged

\* `while !tasks.is_empty() { downloader.append_task(tasks.pop().unwrap()) }`.
Reverse(s) == [i \in 1..Len(s) |-> s[Len(s) + 1 - i]]

\* The rounds a run can have: one more than the failures of a download.
MaxRounds == MaxFlaky + 1

\* A round starts: the tasks go to a new Downloader, a new channel and a
\* new display thread are made, and download() starts its workers.  The
\* round counter is capped at MaxRounds, which no run reaches the loop
\* head with.
DlStartRound ==
  /\ pc = "dl_loop"
  /\ dl.round < MaxRounds
  /\ pc' = "dl_download"
  /\ dl' = [dl EXCEPT !.round = @ + 1,
                      !.batch = Reverse(dl.tasks),
                      !.pending = {dl.tasks[i] : i \in 1..Len(dl.tasks)},
                      !.tasks = <<>>,
                      !.faileds = <<>>,
                      !.chan = <<>>,
                      !.bar = <<>>,
                      !.display = "running"]
  /\ DlUnchanged

\* The message the callback sends for a task.
Progress(round, task, err) == [some |-> TRUE, round |-> round, task |-> task, err |-> err]
\* `retain_sender.send(None)`.
EndMarker(round) == [some |-> FALSE, round |-> round, task |-> <<>>, err |-> ""]

\* The error of a download ("" for none), the resource being of the kind
\* `kind` and `fails` of its downloads having failed.
Outcome(kind, fails) ==
  IF kind = Absent THEN "ResourceNotFound"
  ELSE IF fails < kind THEN "Other"
  ELSE ""

\* The state after a worker completed the task with err.
Completed(task, err) ==
  [dl EXCEPT !.pending = @ \ {task},
             !.fails[task] = IF err = "Other" THEN @ + 1 ELSE @,
             !.disk = IF err = "" THEN @ \cup {<<task.path, task.filename>>} ELSE @,
             !.faileds = IF err = "" THEN @ ELSE Append(@, [task |-> task, err |-> err]),
             !.chan = Append(@, Progress(dl.round, task, err))]

\* A worker of download() completes a task and the callback sends its
\* message.
DlWorker ==
  /\ pc = "dl_download"
  /\ \E task \in dl.pending :
       dl' = Completed(task, Outcome(dl.env[task], dl.fails[task]))
  /\ UNCHANGED pc
  /\ DlUnchanged

\* The display thread takes a message: a line on the bar, or the end.
DlDisplay ==
  /\ dl.display = "running"
  /\ dl.chan # <<>>
  /\ dl' = [dl EXCEPT !.chan = Tail(@),
                      !.bar = IF Head(dl.chan).some THEN Append(@, Head(dl.chan)) ELSE @,
                      !.display = IF Head(dl.chan).some THEN "running" ELSE "finished"]
  /\ UNCHANGED pc
  /\ DlUnchanged

\* download() returns when every task of the Downloader is completed.
DownloadReturns(pending) == pending = {}

\* download() has returned: `retain_sender.send(None)`.
DlSendEnd ==
  /\ pc = "dl_download"
  /\ DownloadReturns(dl.pending)
  /\ pc' = "dl_join"
  /\ dl' = [dl EXCEPT !.chan = Append(@, EndMarker(dl.round))]
  /\ DlUnchanged

\* Every failure is retried.
IsUnrecoverableNever(err) == FALSE

\* `if let shirodl::Error::ResourceNotFound = err`.
IsUnrecoverable(err) == err = "ResourceNotFound"

\* Every failure is on both lists.
FailedTasksAll(faileds, unrecoverable) ==
  [i \in 1..Len(faileds) |-> faileds[i].task]

\* The tasks of the failures that are, or are not, unrecoverable.
FailedTasks(faileds, unrecoverable) ==
  [i \in 1..Len(SelectSeq(faileds, LAMBDA x : IsUnrecoverable(x.err) = unrecoverable)) |->
     SelectSeq(faileds, LAMBDA x : IsUnrecoverable(x.err) = unrecoverable)[i].task]

\* A join that does not wait for the thread.
JoinedAtOnce(display) == TRUE

\* `display_thread.join()` returns when the display thread has finished.
Joined(display) == display = "finished"

\* `display_thread.join()`, the filter_map over faileds and the end of the
\* loop body.
DlJoin ==
  /\ pc = "dl_join"
  /\ Joined(dl.display)
  /\ pc' = IF FailedTasks(dl.faileds, FALSE) = <<>> THEN "dl_after" ELSE "dl_loop"
  /\ dl' = [dl EXCEPT !.display = "joined",
                      !.unrecoverables = @ \o FailedTasks(dl.faileds, TRUE),
                      !.tasks = FailedTasks(dl.faileds, FALSE)]
  /\ DlUnchanged

\* After the loop: the file of the unrecoverable tasks.
DlReport ==
  /\ pc = "dl_after"
  /\ pc' = "dl_done"
  /\ dl' = [dl EXCEPT !.manifest = dl.unrecoverables]
  /\ DlUnchanged

NextDl ==
  \/ DlBuildTasks
  \/ DlStartRound
  \/ DlWorker
  \/ DlDisplay
  \/ DlSendEnd
  \/ DlJoin
  \/ DlReport

\* run_downloader.
SpecDl == InitDl /\ [][NextDl]_vars

\* The steps of the round loop.
DlLoop ==
  \/ DlStartRound
  \/ DlWorker
  \/ DlDisplay
  \/ DlSendEnd
  \/ DlJoin

\* run_downloader, the threads of its round loop running on.
SpecDlFair == SpecDl /\ WF_vars(DlLoop)

\* ------------------------------------------------------------- the claims

\* C1: when a run has ended, no PostId has both a row in the tweet table
\* and a row in the fail table.
C1_PostXorFailure ==
  pc = "done"
    => \A r \in twdb.tweet : \A i \in 1..Len(twdb.fail) : twdb.fail[i].tweet_id # r.id

\* C2: a URL whose PostId has a Post row or a TerminalFailure row when the
\* run starts is not in the candidate list, is not in the list of any fetch
\* pass of the run, and get_tweet is never called for it in the run.
C2_ExistingNeverFetched ==
  /\ \A u \in hist.called : u.id \notin hist.existed
  /\ \A i \in 1..Len(urls) : urls[i].id \notin hist.existed
  /\ \A i \in 1..Len(f.urls) : f.urls[i].id \notin hist.existed

\* A later run has ended whose URL list carried a terminally failed post of
\* an earlier run, and fetched another URL.
C2_Witness ==
  /\ pc = "done"
  /\ hist.called # {}
  /\ \E i \in 1..Len(hist.registry) :
       /\ hist.registry[i].id \in hist.existed
       /\ \E j \in 1..Len(twdb.fail) : twdb.fail[j].tweet_id = hist.registry[i].id
       /\ \A r \in twdb.tweet : r.id # hist.registry[i].id

\* C3: no step updates or deletes a row of the tweet table, the table holds
\* one row per id, and an insert_tweet that collides with a stored id is
\* swallowed and does not end the run.
C3_PostRowsKept ==
  [][/\ \A r \in twdb.tweet : r \in twdb'.tweet
     /\ \A r, q \in twdb'.tweet : r.id = q.id => r = q
     /\ \A e \in last'.events :
          (e.table = "tweet" /\ e.err = ConstraintViolation)
            => (e.how = "swallowed" /\ pc' # "panicked")]_vars

\* The processor has inserted the post of a URL whose id was already stored
\* with another content: the stored row is still the first one.
C3_Witness ==
  /\ last.op = "processor"
  /\ \E e \in last.events : e.table = "tweet" /\ e.how = "swallowed"
  /\ DlGetJson(dldb, last.url.id) = <<SinglePayload(last.url.id)>>
  /\ \E r \in twdb.tweet : r.id = last.url.id /\ r.content = "thread"

\* C4: the fail table holds at most one row per PostId.
C4_OneFailureRowPerPost ==
  \A i, j \in 1..Len(twdb.fail) :
    twdb.fail[i].tweet_id = twdb.fail[j].tweet_id => i = j

\* C5: every storage error of insert_tweet, insert_media, insert_thread and
\* insert_fail other than a unique-constraint violation aborts the run.
C5_StorageErrorAborts ==
  \A e \in last.events : e.err # ConstraintViolation => pc = "panicked"

\* C6: at the turn of a URL whose PostId the Raw Cache holds, get_tweet is
\* not called, the Raw Cache stays as it is and the URL goes on succeed.
C6_CacheHit ==
  [][(Fetching /\ \E r \in dldb : r.id = Cur.id)
       => /\ last'.op = "existed"
          /\ last'.url = Cur
          /\ hist'.called = hist.called
          /\ dldb' = dldb
          /\ f'.succeed = Append(f.succeed, Cur)
          /\ f'.failed = f.failed
          /\ f'.idx = f.idx + 1]_vars

\* A URL was taken from the Raw Cache in a fetch pass.
C6_Witness ==
  /\ last.op = "existed"
  /\ f.succeed # <<>>
  /\ f.succeed[Len(f.succeed)] = last.url
  /\ DlIsExist(dldb, last.url.id)

\* C7: a RateLimited result leaves the failed and succeed lists, the Raw
\* Cache, the tweet store and the remaining list as they were and keeps the
\* pass at the same URL; the step after it is a get_tweet call for the same
\* URL, however many RateLimited results came before.
C7_RateLimitedRetries ==
  [][/\ (last'.op = "get_tweet" /\ last'.result = "RateLimited")
          => /\ last'.url = Cur
             /\ f'.urls = f.urls /\ f'.idx = f.idx
             /\ f'.failed = f.failed /\ f'.succeed = f.succeed
             /\ dldb' = dldb /\ twdb' = twdb /\ remaining' = remaining
             /\ pc' = pc
     /\ (last.op = "get_tweet" /\ last.result = "RateLimited")
          => (last'.op = "get_tweet" /\ last'.url = last.url)]_vars

\* The last of the consecutive RateLimited results for one URL.
C7_Witness ==
  /\ last.op = "get_tweet"
  /\ last.result = "RateLimited"
  /\ f.retries_counter = MaxRateLimited
  /\ Fetching
  /\ Cur = last.url

\* C8: after a get_tweet call that returned an error other than RateLimited,
\* of whatever error type, the URL is the last of the failed list and the
\* pass has moved on from it.
C8_OtherErrorFails ==
  (last.op = "get_tweet" /\ last.result \in {"Error", "ForeignError"})
    => /\ f.failed # <<>>
       /\ f.failed[Len(f.failed)] = last.url
       /\ ~(Fetching /\ Cur = last.url)

\* C9: after get_tweet returned a payload, a Raw Cache row of the URL and
\* its id was added and the URL went on succeed; or the insert failed, the
\* URL went on failed and the Raw Cache holds for the id what it held when
\* the insert ran; either way the pass moved on, and no URL is twice in the
\* list of the pass.
C9_StoreFetched ==
  [][/\ (last'.op = "get_tweet" /\ last'.result = "Ok")
          => /\ f'.succeed = Append(f.succeed, Cur)
             /\ f'.failed = f.failed
             /\ f'.idx = f.idx + 1
             /\ \E r \in dldb' :
                  /\ r.id = Cur.id /\ r.url = Cur
                  /\ r.json \in FetchPayloads(Cur.id)
                  /\ dldb' = dldb \cup {r}
     /\ (last'.op = "get_tweet" /\ last'.result = "OkInsertFailed")
          => /\ f'.failed = Append(f.failed, Cur)
             /\ f'.succeed = f.succeed
             /\ f'.idx = f.idx + 1
             /\ dlFile = "table" => last'.cached # <<>>
             /\ DlGetJson(dldb', Cur.id) = last'.cached
     /\ \A i, j \in 1..Len(f'.urls) : f'.urls[i] = f'.urls[j] => i = j]_vars

\* A fetched payload could not be inserted and the URL is on failed.
C9_Witness ==
  /\ last.op = "get_tweet"
  /\ last.result = "OkInsertFailed"
  /\ last.cached # <<>>
  /\ f.failed # <<>>
  /\ f.failed[Len(f.failed)] = last.url

\* C10: a run has at most 5 authenticated rounds; a round starts only with
\* a non-empty remaining list and fetches exactly that list, which holds no
\* URL already counted as success or terminal failure; the anonymous pass
\* fetches the candidate list and starts only at the start of a run.
C10_TierBudget ==
  /\ [](/\ hist.rounds <= 5
        /\ pc = "anon_fetch" => f.urls = urls
        /\ pc = "auth_fetch"
             => /\ f.urls = remaining
                /\ remaining # <<>>
                /\ \A i \in 1..Len(f.urls) : f.urls[i] \notin hist.settled)
  /\ [][/\ (pc' = "anon_fetch" /\ pc # "anon_fetch") => last'.op = "start"
        /\ (pc' = "auth_fetch" /\ pc # "auth_fetch") => hist'.rounds = hist.rounds + 1
        /\ (pc = "auth_check" /\ remaining = <<>>) => pc' = "done"]_vars

\* A run with an anonymous pass ended after 5 authenticated rounds with
\* URLs still remaining.
C10_Witness ==
  /\ pc = "done"
  /\ cfg.anon
  /\ hist.rounds = 5
  /\ remaining # <<>>

\* C11: an authenticated round that follows an anonymous pass or an earlier
\* round starts its fetch with no Raw Cache row for any id of the remaining
\* list, and every URL the round has taken had get_tweet called for its id
\* in that round: no row of an earlier tier or round is a cache hit.
C11_EvictBeforeRetry ==
  /\ [][(pc = "auth_check" /\ pc' = "auth_fetch" /\ clean)
          => /\ f'.urls = remaining
             /\ \A i \in 1..Len(remaining) :
                  ~\E r \in dldb' : r.id = remaining[i].id]_vars
  /\ []((pc \in {"auth_fetch", "auth_process"} /\ clean)
          => \A i \in 1..(f.idx - 1) : f.urls[i].id \in hist.round_called)

\* A round has started whose eviction deleted the row of a remaining id.
C11_Witness ==
  /\ pc = "auth_fetch"
  /\ clean
  /\ last.op = "round"
  /\ last.evicted # {}
  /\ \A i \in 1..Len(f.urls) : f.urls[i].id \in last.evicted

\* C12: after the processor met a Restricted parse result, the post has a
\* fail row of type restricted and is counted as restricted if and only if
\* the result came up in an authenticated round or the run has no
\* authenticated tier; else the URL is on the remaining list and no row is
\* written.
C12_RestrictedTerminal ==
  (last.op = "processor" /\ last.result = "TweetRestricted")
    => /\ (/\ \E i \in 1..Len(twdb.fail) :
                twdb.fail[i].url = last.url /\ twdb.fail[i].type = "restricted"
           /\ counts.restricted > 0)
            <=> (pc = "auth_process" \/ ~cfg.login)
       /\ (pc = "anon_process" /\ cfg.login)
            => /\ remaining # <<>>
               /\ remaining[Len(remaining)] = last.url
               /\ \A i \in 1..Len(twdb.fail) : twdb.fail[i].url # last.url

\* C13: a processor call appends a fail row only for a parser error of the
\* fixed table, with the reason the table gives; after a parser error of
\* adult content, unknown tombstone text, schema-invalid, todo or
\* unimplemented the tweet store is as it was and the URL is the last of the
\* remaining list.
C13_TerminalTable ==
  [][last'.op = "processor"
       => /\ twdb'.fail # twdb.fail
               => \E pair \in {<<"TweetRestricted", "restricted">>,
                               <<"TweetNotExists", "deleted">>,
                               <<"TweetIllegalBan", "deleted">>,
                               <<"TwitterAccountSuspended", "account suspended">>,
                               <<"TwitterAccountNotExisted", "account not existed">>} :
                    /\ last'.result = pair[1]
                    /\ twdb'.fail = Append(twdb.fail,
                                           [tweet_id |-> last'.url.id,
                                            url |-> last'.url, type |-> pair[2]])
          /\ last'.result \in {"TweetAdultContent", "TweetUnknownError",
                               "TweetJsonSchemaInvalid", "Todo", "Unimplemented"}
               => /\ twdb' = twdb
                  /\ remaining' = Append(remaining, last'.url)]_vars

\* The processor has put a URL with an unimplemented entry type on the
\* remaining list after it wrote the fail row of another URL.
C13_Witness ==
  /\ last.op = "processor"
  /\ last.result = "Unimplemented"
  /\ remaining # <<>>
  /\ remaining[Len(remaining)] = last.url
  /\ twdb.fail # <<>>
  /\ \A i \in 1..Len(twdb.fail) : twdb.fail[i].url # last.url

\* A parse result that is an error without a terminal reason.
C14_Retryable(res) ==
  /\ ~res.ok
  /\ res.err \notin {"TweetRestricted", "TweetNotExists", "TweetIllegalBan",
                     "TwitterAccountSuspended", "TwitterAccountNotExisted"}

\* C14: in a run without a logged-in fetcher the step after the anonymous
\* pass ends the run, evicts nothing and calls get_tweet for nothing; at the
\* end every URL that the anonymous pass failed to fetch, and every URL whose
\* payload parsed to a retryable error, is on the remaining list and has no
\* fail row.
C14_NoLoginKeepsRemaining ==
  /\ [][(pc = "auth_check" /\ ~cfg.login)
          => (pc' = "done" /\ dldb' = dldb /\ hist'.called = hist.called
              /\ remaining' = remaining)]_vars
  /\ []((pc = "done" /\ cfg.anon /\ ~cfg.login)
          => /\ hist.rounds = 0
             /\ \A i \in 1..Len(f.failed) :
                  /\ \E j \in 1..Len(remaining) : remaining[j] = f.failed[i]
                  /\ \A j \in 1..Len(twdb.fail) : twdb.fail[j].url # f.failed[i]
             /\ \A i \in 1..Len(f.succeed) :
                  C14_Retryable(extract_all_tweets(f.succeed[i].id,
                                                   DlGetJson(dldb, f.succeed[i].id)[1]))
                    => /\ \E j \in 1..Len(remaining) : remaining[j] = f.succeed[i]
                       /\ \A j \in 1..Len(twdb.fail) : twdb.fail[j].url # f.succeed[i])

\* A run without login has ended whose anonymous pass failed to fetch one
\* URL and parsed the payload of another to adult content.
C14_Witness ==
  /\ pc = "done"
  /\ cfg.anon
  /\ ~cfg.login
  /\ f.failed # <<>>
  /\ \E i \in 1..Len(f.succeed) :
       /\ DlGetJson(dldb, f.succeed[i].id)
            = <<TombstonePayload(f.succeed[i].id, "AUDLT_CONTENT")>>
       /\ \E j \in 1..Len(remaining) : remaining[j] = f.succeed[i]

\* C15: after insert(id, url, json) succeeded, is_exist(id) is true and
\* get_json(id) gives json; an insert whose id or whose url is in a stored
\* row fails and leaves the table as it was; after remove(id), is_exist(id)
\* is false, get_json(id) fails and the rows of the other ids are kept.
C15_CacheStateMachine ==
  [][/\ (last'.op = "insert" /\ last'.result = "Ok")
          => /\ DlIsExist(dldb', last'.id)
             /\ DlGetJson(dldb', last'.id) = last'.cached
             /\ dldb' = dldb \cup {[id |-> last'.id, url |-> last'.url,
                                    json |-> last'.cached[1]]}
     /\ (last'.op = "insert"
           /\ \E r \in dldb : r.id = last'.id \/ r.url = last'.url)
          => (last'.result = "Err" /\ dldb' = dldb)
     /\ last'.op = "remove"
          => /\ ~DlIsExist(dldb', last'.id)
             /\ DlGetJson(dldb', last'.id) = <<>>
             /\ \A r \in dldb : r.id # last'.id => r \in dldb']_vars

\* An insert of a new id under the url of a stored row has failed.
C15_Witness ==
  /\ last.op = "insert"
  /\ last.result = "Err"
  /\ ~DlIsExist(dldb, last.id)
  /\ \E r \in dldb : r.url = last.url /\ r.id # last.id /\ <<r.json>> # last.cached

\* What C20 asks of the store db after the payload of post id parsed into
\* tweets: every member of the thread has its tweet row, its thread row
\* when as_thread gives one, and owns a media row of each of its media ids.
C20_ThreadPersisted(db, id, tweets) ==
  \A n \in get_thread(id, tweets) :
    /\ \E r \in db.tweet : r.id = n
    /\ as_thread(tweets[n]) # <<>> => \E r \in db.thread : r.tweet_id = n
    /\ \A i \in 1..Len(get_medias(tweets[n])) :
         \E r \in db.media : r.id = get_medias(tweets[n])[i].id /\ r.tweet_id = n

\* C20: when the payload of post X parses and get_thread gives a thread of
\* more than one member, then after the processor call the store holds a
\* tweet row for every member, a thread row for every member with both
\* thread ids, and for every media item of a member a media row of that
\* media id owned by that member.
C20_ThreadStoredWhole ==
  [][(last'.op = "processor" /\ last'.result = "Ok" /\ pc' # "panicked")
       => C20_ThreadPersisted(twdb', last'.id,
                              extract_all_tweets(last'.id,
                                                 DlGetJson(dldb, last'.id)[1]).tweets)]_vars

\* C16: the round loop ends, and when it has ended every task whose
\* resource is there (at once, or after its retriable failures) is
\* downloaded and the unrecoverable list holds exactly the tasks whose
\* resource is absent, each once.
C16_LoopTerminates ==
  /\ (pc = "dl_loop" /\ dl.round = 0) ~> (pc = "dl_after")
  /\ [](pc = "dl_after"
          => \A task \in DOMAIN dl.env :
               IF dl.env[task] = Absent
               THEN Cardinality({i \in 1..Len(dl.unrecoverables) :
                                   dl.unrecoverables[i] = task}) = 1
               ELSE /\ <<task.path, task.filename>> \in dl.disk
                    /\ \A i \in 1..Len(dl.unrecoverables) : dl.unrecoverables[i] # task)

\* The loop has ended on tasks of the three kinds.
C16_Witness ==
  /\ pc = "dl_after"
  /\ \E a, b, c \in DOMAIN dl.env :
       /\ dl.env[a] = 0
       /\ dl.env[b] = Absent
       /\ dl.env[c] > 0 /\ dl.fails[c] = dl.env[c]
       /\ <<a.path, a.filename>> # <<c.path, c.filename>>
       /\ dl.unrecoverables = <<b>>

\* C17: at the end of a round the next task list is this round's failed
\* tasks whose error is not ResourceNotFound, each once, and the loop is
\* left exactly when there is none; a task on the unrecoverable list is on
\* it once and is in no later task list or round.
C17_RoundHandOver ==
  /\ [][(pc = "dl_join" /\ pc' # "dl_join")
          => /\ \A task \in DOMAIN dl.env :
                  Cardinality({i \in 1..Len(dl'.tasks) : dl'.tasks[i] = task})
                    = Cardinality({i \in 1..Len(dl.faileds) :
                                     /\ dl.faileds[i].task = task
                                     /\ dl.faileds[i].err # "ResourceNotFound"})
             /\ \A i \in 1..Len(dl'.tasks) : dl'.tasks[i] \in DOMAIN dl.env
             /\ pc' \in {"dl_after", "dl_loop"}
             /\ pc' = "dl_after"
                  <=> \A i \in 1..Len(dl.faileds) : dl.faileds[i].err = "ResourceNotFound"]_vars
  /\ [](\A i \in 1..Len(dl.unrecoverables) :
          /\ \A j \in 1..Len(dl.unrecoverables) :
               dl.unrecoverables[j] = dl.unrecoverables[i] => j = i
          /\ \A j \in 1..Len(dl.tasks) : dl.tasks[j] # dl.unrecoverables[i]
          /\ pc \in {"dl_download", "dl_join"}
               => \A j \in 1..Len(dl.batch) : dl.batch[j] # dl.unrecoverables[i])

\* A second round runs the retried task of a first round that also
\* had an unrecoverable failure.
C17_Witness ==
  /\ pc = "dl_download"
  /\ dl.round = 2
  /\ dl.unrecoverables # <<>>
  /\ dl.batch # <<>>
  /\ \E task \in DOMAIN dl.env : dl.env[task] = 0

\* C19: when the display thread of a round has finished it has taken one
\* message for each task of the round and the end marker after them, with
\* nothing left in the channel; it only ever takes messages of its own
\* round; and a round starts only when no display thread runs.
C19_DisplayPerRound ==
  /\ [](dl.display \in {"finished", "joined"}
          => /\ dl.chan = <<>>
             /\ Len(dl.bar) = Len(dl.batch)
             /\ \A i \in 1..Len(dl.batch) :
                  Cardinality({j \in 1..Len(dl.bar) : dl.bar[j].task = dl.batch[i]}) = 1)
  /\ [](\A j \in 1..Len(dl.bar) : dl.bar[j].some /\ dl.bar[j].round = dl.round)
  /\ [][(dl'.round # dl.round)
          => (dl.display \in {"none", "joined"} /\ dl.chan = <<>>)]_vars

\* The display thread of a second round has finished after the messages of
\* two tasks.
C19_Witness ==
  /\ dl.display = "finished"
  /\ dl.round = 2
  /\ Len(dl.bar) = 2
  /\ dl.bar[1].task # dl.bar[2].task

\* C18: the initial task list holds one task for every (author, media URL)
\* pair of the tweet store whose file destDir/author/filename is not on
\* disk, and no other task.
C18_InitialTaskList ==
  (pc = "dl_loop" /\ dl.round = 0)
    => /\ \A i \in 1..Len(dl.tasks) :
            \E t \in twdb.tweet, m \in twdb.media :
              /\ t.id = m.tweet_id
              /\ dl.tasks[i] = TaskFor(t.author, m.url)
              /\ <<t.author, dl.tasks[i].filename>> \notin dl.disk
       /\ \A t \in twdb.tweet, m \in twdb.media :
            (t.id = m.tweet_id
               /\ <<t.author, TaskFor(t.author, m.url).filename>> \notin dl.disk)
              => Cardinality({i \in 1..Len(dl.tasks) :
                                dl.tasks[i] = TaskFor(t.author, m.url)}) = 1
\* The result map of the payload the Raw Cache holds for the id.
ParsedMap(id) == extract_all_tweets(id, DlGetJson(dldb, id)[1]).tweets

\* The ids of the map that carry the self-thread id of the post id.
C21_SameThread(id, tweets) ==
  {t \in DOMAIN tweets :
     tweets[t].self_thread # 0 /\ tweets[t].self_thread = tweets[id].self_thread}

\* The thread rows C21 asks for: none without a thread, else the edge of
\* every member that has a self-thread id and an in-reply-to id.
C21_Edges(tweets, thread) ==
  {[tweet_id |-> t, thread_id |-> tweets[t].self_thread,
    reply_to |-> tweets[t].in_reply_to] :
     t \in {m \in thread : tweets[m].self_thread # 0 /\ tweets[m].in_reply_to # 0}}

\* C21: get_thread gives no thread when the requested post has no
\* self-thread id or is alone with it in the result map, and else the ids
\* of the map sharing it, the requested id among them; thread rows are
\* stored only then, one for each member with both ids.
C21_ThreadOrNone ==
  [][(last'.op = "processor" /\ last'.result = "Ok" /\ twdb.thread = {})
       => /\ get_thread(last'.id, ParsedMap(last'.id))
               = IF Cardinality(C21_SameThread(last'.id, ParsedMap(last'.id))) <= 1
                 THEN {}
                 ELSE C21_SameThread(last'.id, ParsedMap(last'.id))
          /\ get_thread(last'.id, ParsedMap(last'.id)) # {}
               => last'.id \in get_thread(last'.id, ParsedMap(last'.id))
          /\ twdb'.thread
               = C21_Edges(ParsedMap(last'.id),
                           IF Cardinality(C21_SameThread(last'.id, ParsedMap(last'.id))) <= 1
                           THEN {}
                           ELSE C21_SameThread(last'.id, ParsedMap(last'.id)))]_vars

\* A reply of a self-thread was parsed alone and stored without a thread
\* row.
C21_Witness ==
  /\ last.op = "processor"
  /\ last.result = "Ok"
  /\ Cardinality(DOMAIN ParsedMap(last.id)) = 1
  /\ ParsedMap(last.id)[last.id].self_thread # 0
  /\ ParsedMap(last.id)[last.id].in_reply_to # 0
  /\ twdb.tweet # {}
  /\ twdb.thread = {}

\* The entries of the payload the Raw Cache holds for the id.
CachedEntries(id) == AddEntries(DlGetJson(dldb, id)[1])[1].entries

\* The entry is a text tombstone with the entry id of the post id.
C22_Matching(e, id) ==
  /\ e.entryType = "TimelineTimelineItem"
  /\ e.entryId = id
  /\ e.results[1].typename = "TweetTombstone"
  /\ e.results[1].tombstone_type = "TextTombstone"

\* The reason C22 gives for a tombstone text.
C22_Reason(text) ==
  IF "ACCOUNT_SUSPENDED" \in text THEN "TwitterAccountSuspended"
  ELSE IF "AUDLT_CONTENT" \in text THEN "TweetAdultContent"
  ELSE IF "USER_RESTRICTED" \in text THEN "TweetRestricted"
  ELSE IF "ACCOUNT_NOT_EXISTED" \in text THEN "TwitterAccountNotExisted"
  ELSE IF "TWEET_ILLEGAL" \in text THEN "TweetIllegalBan"
  ELSE IF "TWEET_NOT_AVALIABLE" \in text THEN "TweetNotExists"
  ELSE "TweetUnknownError"

\* C22: when the payload has a text tombstone entry with the entry id of
\* the requested post, the parse fails with the error of the first known
\* phrase the text contains, an unknown error without one, and no tweet row
\* is written; with the account-suspended phrase the processor tallies the
\* post as suspended and appends the fail row "account suspended".
C22_TombstoneReason ==
  [][last'.op = "processor"
       => \A k \in 1..Len(CachedEntries(last'.id)) :
            C22_Matching(CachedEntries(last'.id)[k], last'.id)
              => /\ last'.result # "Ok"
                 /\ twdb'.tweet = twdb.tweet
                 /\ last'.result
                      = C22_Reason(CachedEntries(last'.id)[k].results[1].text)
                 /\ "ACCOUNT_SUSPENDED" \in CachedEntries(last'.id)[k].results[1].text
                      => /\ twdb'.fail
                              = Append(twdb.fail,
                                       [tweet_id |-> last'.id, url |-> last'.url,
                                        type |-> "account suspended"])
                         /\ counts'.account_suspended
                              = counts.account_suspended + 1
                         /\ remaining' = remaining]_vars

\* The media entry a stored media row was made from.
C23_Source(row, tweets) ==
  (IF tweets[row.tweet_id].has_extended THEN tweets[row.tweet_id].extended
   ELSE tweets[row.tweet_id].entities)[row.no]

\* C23: the url of a stored media row of kind video or animated_gif is the
\* url of a variant whose bitrate is at least the bitrate of every variant
\* of the media entry, a variant without a bitrate having 0; the url of a
\* row of another kind is the media_url_https of the entry.
C23_HighestBitrate ==
  [][(last'.op = "processor" /\ last'.result = "Ok")
       => \A row \in twdb'.media \ twdb.media :
            IF C23_Source(row, ParsedMap(last'.id)).type \in {"video", "animated_gif"}
            THEN \E i \in 1..Len(C23_Source(row, ParsedMap(last'.id)).variants) :
                   /\ C23_Source(row, ParsedMap(last'.id)).variants[i].url = row.url
                   /\ \A j \in 1..Len(C23_Source(row, ParsedMap(last'.id)).variants) :
                        C23_Source(row, ParsedMap(last'.id)).variants[j].bitrate
                          <= C23_Source(row, ParsedMap(last'.id)).variants[i].bitrate
            ELSE row.url = C23_Source(row, ParsedMap(last'.id)).media_url_https]_vars

\* The video with the variants of bitrate 0, 800 and 320 is stored with
\* the url of the second variant, beside the photo of the post.
C23_Witness ==
  /\ last.op = "processor"
  /\ last.result = "Ok"
  /\ Cardinality(twdb.media) = 2
  /\ \E row \in twdb.media :
       /\ row.type = "video"
       /\ row.url = 102
       /\ Len(C23_Source(row, ParsedMap(last.id)).variants) = 3
       /\ C23_Source(row, ParsedMap(last.id)).variants[1].bitrate = 0
       /\ C23_Source(row, ParsedMap(last.id)).variants[2].bitrate = 800
       /\ C23_Source(row, ParsedMap(last.id)).variants[3].bitrate = 320
  /\ \E row \in twdb.media : row.type = "photo" /\ row.url = last.id

\* The URLs that URL_EXTRACTOR matches on the lines of a file.
C24_Matched(file) ==
  {u \in UrlUniverse : \E i \in 1..Len(file) : URL_EXTRACTOR(file[i]) = <<u>>}

\* C24: the list read_url_list gives is strictly increasing in the order of
\* the URL strings, its elements are the URLs matched on the lines of the
\* file and no others, and every file with the same set of matched URLs,
\* its lines in any order and any number of times, gives the same list.
C24_SortedSetOfMatches ==
  pc = "read_done"
    => /\ \A i \in 1..(Len(urls) - 1) : UrlRank(urls[i]) < UrlRank(urls[i + 1])
       /\ {urls[i] : i \in 1..Len(urls)} = C24_Matched(input)
       /\ \A file \in InputFiles :
            C24_Matched(file) = C24_Matched(input) => read_url_list(file) = urls

\* A file with the same URL on two lines, once with a query, was read to a
\* list of one URL.
C24_Witness ==
  /\ pc = "read_done"
  /\ Len(input) = 2
  /\ input[1].rest # input[2].rest
  /\ URL_EXTRACTOR(input[1]) # <<>>
  /\ URL_EXTRACTOR(input[1]) = URL_EXTRACTOR(input[2])
  /\ Len(urls) = 1

\* C25: the candidate list of a run holds at most one URL for each status
\* id.
C25_OneUrlPerPost ==
  \A i, j \in 1..Len(urls) :
    extract_twitter_url(urls[i]) = extract_twitter_url(urls[j]) => i = j

\* C26: for a handle without "/" and an id of 64 bits, extract_twitter_url
\* gives the handle and the id for the text of the canonical URL, also
\* when a query or other text follows the id.
C26_RoundTrip ==
  pc = "extracted"
    => \A a \in Handles, n \in StatusIds, t \in TrailingTexts :
         input[1] = CanonicalText(a, n) \o t
           => last.cached = <<[username |-> a, status_id |-> n]>>

\* The sum of the five counters of the summary.
C27_Tallied ==
  counts.success + counts.account_suspended + counts.account_not_existed
    + counts.deleted + counts.restricted

\* C27: after the anonymous pass, after every authenticated round and at
\* the end of the run the five counters and the length of the remaining
\* list add up to the number of candidate URLs.
C27_TalliesExact ==
  pc \in {"auth_check", "done"} => C27_Tallied + Len(remaining) = Len(urls)

\* After an authenticated round one candidate is counted with a terminal
\* reason and the other is on the remaining list.
C27_Witness ==
  /\ pc = "auth_check"
  /\ retries >= 1
  /\ Len(urls) = 2
  /\ C27_Tallied - counts.success = 1
  /\ Len(remaining) = 1

\* C28: the first RateLimited result for a URL is followed by a sleep of 60
\* seconds, and the n-th in a row, n >= 2, by a sleep of 600 + 120 * (n - 1)
\* seconds; f.retries_counter + 1 is the n of the result of the step.
C28_SleepSchedule ==
  [][(last'.op = "get_tweet" /\ last'.result = "RateLimited")
       => last'.sleep = IF f.retries_counter + 1 = 1 THEN 60
                        ELSE 600 + 120 * ((f.retries_counter + 1) - 1)]_vars

\* The parse of the entries of the cached payload, before the last check.
ParsedEntries(id) == ParseEntries(EmptyMap, id, CachedEntries(id))

\* C29: the processor's lookup of the requested id in a parse result never
\* fails; a parse that succeeded has the requested id in its map, and its
\* tweet row is written; when every entry parses and the requested id is
\* not among the items, the parse fails as schema-invalid, the URL goes on
\* the remaining list and the tweet store stays as it was.
C29_RequestedIdPresent ==
  [][last'.op = "processor"
       => /\ last'.result # "no item"
          /\ last'.result = "Ok"
               => /\ ParsedEntries(last'.id).ok
                  /\ last'.id \in DOMAIN ParsedEntries(last'.id).tweets
                  /\ \E r \in twdb'.tweet : r.id = last'.id
          /\ (ParsedEntries(last'.id).ok
                /\ last'.id \notin DOMAIN ParsedEntries(last'.id).tweets)
               => /\ last'.result = "TweetJsonSchemaInvalid"
                  /\ remaining' = Append(remaining, last'.url)
                  /\ twdb' = twdb]_vars

\* Every entry of the payload was parsed, to items of other posts than the
\* requested one, and the URL is on the remaining list.
C29_Witness ==
  /\ last.op = "processor"
  /\ last.result = "TweetJsonSchemaInvalid"
  /\ ParsedEntries(last.id).ok
  /\ DOMAIN ParsedEntries(last.id).tweets # {}
  /\ last.id \notin DOMAIN ParsedEntries(last.id).tweets
  /\ remaining = <<last.url>>
  /\ twdb.tweet = {}

\* The entry is a tombstone, of whatever type, text and wrapping, with the
\* entry id of another post than id.
C30_OtherTombstone(e, id) ==
  /\ e.entryType = "TimelineTimelineItem"
  /\ e.results[1].typename = "TweetTombstone"
  /\ e.entryId # id

\* The parse of the cached payload without the tombstones of other posts.
C30_WithoutTombstones(id) ==
  RequireRequested(id, ParseEntries(EmptyMap, id,
                                    SelectSeq(CachedEntries(id),
                                              LAMBDA e : ~C30_OtherTombstone(e, id))))

\* C30: the tombstone entries of other posts than the requested one are
\* skipped: the processor sees the parse result that the other entries of
\* the payload give without them.
C30_OtherTombstonesSkipped ==
  [][last'.op = "processor"
       => last'.result = IF C30_WithoutTombstones(last'.id).ok THEN "Ok"
                         ELSE C30_WithoutTombstones(last'.id).err]_vars

\* The number of TimelineAddEntries instructions of the payload the Raw
\* Cache holds for the id.
C31_AddEntriesCount(id) ==
  Cardinality({i \in 1..Len(DlGetJson(dldb, id)[1].instructions) :
                 DlGetJson(dldb, id)[1].instructions[i].type = "TimelineAddEntries"})

\* C31: the parse succeeds only with exactly one TimelineAddEntries
\* instruction; with none it fails as schema-invalid and with two or more
\* as todo, and then the tweet store stays as it was and the URL goes on
\* the remaining list.
C31_OneAddEntries ==
  [][last'.op = "processor"
       => /\ last'.result = "Ok" => C31_AddEntriesCount(last'.id) = 1
          /\ C31_AddEntriesCount(last'.id) = 0 => last'.result = "TweetJsonSchemaInvalid"
          /\ C31_AddEntriesCount(last'.id) >= 2 => last'.result = "Todo"
          /\ C31_AddEntriesCount(last'.id) # 1
               => /\ twdb' = twdb
                  /\ counts' = counts
                  /\ remaining' = Append(remaining, last'.url)]_vars

\* A payload with two TimelineAddEntries instructions, the first with the
\* requested post, was processed: no tweet row, the URL is remaining.
C31_Witness ==
  /\ last.op = "processor"
  /\ last.result = "Todo"
  /\ C31_AddEntriesCount(last.id) = 2
  /\ DlGetJson(dldb, last.id)[1].instructions[1].type = "TimelineAddEntries"
  /\ DlGetJson(dldb, last.id)[1].instructions[1].entries[1].entryId = last.id
  /\ twdb.tweet = {}
  /\ remaining = <<last.url>>

\* C32: a step removes Raw Cache rows only when it is the head of an
\* authenticated round, and then only rows of ids of URLs on the remaining
\* list; no step changes the url or the json of a row that stays; the row
\* of a post that has a tweet row is never removed.
C32_EvictOnlyRemaining ==
  [][/\ \A r \in dldb :
          (\A q \in dldb' : q.id # r.id)
            => /\ last'.op = "round"
               /\ \E i \in 1..Len(remaining) : extract_twitter_url(remaining[i]) = r.id
               /\ \A t \in twdb.tweet : t.id # r.id
     /\ \A r \in dldb, q \in dldb' : q.id = r.id => q = r]_vars

\* C33: extract_twitter_url gives an id for every URL that read_url_list
\* emits, so the unwrap of the orchestrator never panics on a URL of the
\* list; a line whose status id does not fit in 64 bits gives no URL.
C33_RegistryIdsExtract ==
  /\ pc # "panicked"
  /\ (pc = "emitted" /\ urls # <<>>) => extract_twitter_url_text(urls[1]) # <<>>
  /\ (pc = "emitted"
        /\ input[1] = HostPrefix \o <<"a">> \o StatusPart \o <<"1">> \o U64MaxDigits)
       => urls = <<>>

\* C34: in a fetch pass every get_tweet call whose result is not RateLimited,
\* a payload or an error of whatever type, ends the retry loop of its URL:
\* the pass moves to the next URL of the list, so a pass with finitely many
\* RateLimited results ends.
C34_OneCallEndsRetryLoop ==
  [][(Fetching /\ last'.op = "get_tweet" /\ last'.result # "RateLimited")
       => /\ f'.idx = f.idx + 1
          /\ f'.retries_counter = 0
          /\ Len(f'.succeed) + Len(f'.failed) = Len(f.succeed) + Len(f.failed) + 1]_vars

\* C35: an authenticated round fetches the remaining list as it was, and from
\* then on the remaining list holds only URLs of that list, each once; and
\* the remaining list never holds a URL that was counted as a success or for
\* which a fail row was written.
C35_RemainingShrinks ==
  [][/\ (pc = "auth_check" /\ pc' = "auth_fetch") => f'.urls = remaining
     /\ (hist'.rounds > 0 /\ pc' \in {"auth_fetch", "auth_process", "auth_check", "done"})
          => /\ \A i \in 1..Len(remaining') : \E j \in 1..Len(f'.urls) :
                  remaining'[i] = f'.urls[j]
             /\ \A i, j \in 1..Len(remaining') : remaining'[i] = remaining'[j] => i = j
     /\ \A i \in 1..Len(remaining') : remaining'[i] \notin hist'.settled]_vars

C35_Witness ==
  /\ pc = "auth_check"
  /\ hist.rounds > 1
  /\ remaining # <<>>
  /\ Len(remaining) < Len(f.urls)
  /\ \E u \in hist.settled : \E j \in 1..Len(f.urls) : f.urls[j] = u

\* C36: every URL on the succeed list of a fetch pass has a Raw Cache row of
\* its id, from the moment it is put on the list until the processor has
\* taken it, so get_json(id).unwrap() of the processor never panics.
C36_SucceededIsCached ==
  /\ pc \in {"anon_fetch", "auth_fetch"}
       => \A i \in 1..Len(f.succeed) :
            DlGetJson(dldb, extract_twitter_url(f.succeed[i])) # <<>>
  /\ pc \in {"anon_process", "auth_process"}
       => \A i \in proc.idx..Len(proc.list) :
            DlGetJson(dldb, extract_twitter_url(proc.list[i])) # <<>>
  /\ last.op = "processor" => last.result # "no json"

C36_Witness ==
  /\ pc = "auth_process"
  /\ hist.rounds > 1
  /\ Len(proc.list) = 2
  /\ proc.list[1] # proc.list[2]
  /\ extract_twitter_url(proc.list[1]) = extract_twitter_url(proc.list[2])
  /\ proc.idx = 3
  /\ last.op = "processor"

\* C37: the assertion of get_medias holds for every item of a parse result:
\* as many Media values are returned as the entities list of the item has
\* media, and no processor call panics on it.
C37_MediaCountAsserted ==
  /\ last.op = "processor" => last.result # "assertion"
  /\ \A i \in 1..Len(urls) :
       LET res == extract_all_tweets(urls[i].id, DlGetJson(dldb, urls[i].id)[1])
       IN res.ok => \A n \in DOMAIN res.tweets : debug_assert_medias(res.tweets[n])

\* C38: the orchestrator thread holds no guard of the remaining list or of
\* a counter where the processor or the status printer locks it, nor where
\* the loop condition locks the remaining list: the one guard it keeps in a
\* variable, that of the remaining list, is held from the head of an
\* authenticated round to the end of its fetch pass and nowhere else, so no
\* lock() of the run waits for the thread itself.
C38_NoSelfLock ==
  /\ held \subseteq {"remaining"}
  /\ pc \in {"anon_process", "auth_process"}
       => CanLock({"progress_count"} \cup status_printer)
  /\ pc = "auth_check" => CanLock({"remaining", "tweet_without_media"})
  /\ held # {} => pc \in {"auth_fetch", "panicked"}

C38_Witness ==
  /\ pc = "auth_process"
  /\ hist.rounds > 1
  /\ last.op = "processor"
  /\ remaining # <<>>
  /\ remaining[Len(remaining)] = last.url
  /\ counts.success > 0

\* C39: make_existed_url returns the URLs of its input whose id the checked
\* database holds, in their order: after the first call the list is the
\* URLs of the URL list that the Raw Cache holds, after the second those
\* that both databases hold, and the tally counts each of these once and no
\* other URL.
C39_ExistedUrls ==
  /\ pc = "summary_dl"
       => urls = SelectSeq(hist.registry,
                           LAMBDA p : DlIsExist(dldb, extract_twitter_url(p)))
  /\ pc \in {"summary_tw", "summary_done"}
       => urls = SelectSeq(hist.registry,
                           LAMBDA p : /\ DlIsExist(dldb, extract_twitter_url(p))
                                      /\ TwIsExist(twdb, extract_twitter_url(p)))
  /\ pc = "summary_done"
       => /\ f.failed = <<>>
          /\ counts.success + counts.deleted
               = Len(SelectSeq(hist.registry,
                               LAMBDA p : /\ DlIsExist(dldb, extract_twitter_url(p))
                                          /\ TwIsExist(twdb, extract_twitter_url(p))))

====
